---- MODULE Spec2Model ----
(***************************************************************************)
(* QuickEdit (src/script.js): the annotation document, its undo/redo       *)
(* history, the selection/hover references and the pointer and keyboard    *)
(* handlers that change them.                                              *)
(*                                                                         *)
(* Lengths are integers in quarter pixels (Px(n) is n pixels), so that the *)
(* halves the code takes (size/2, lineWidth/2, width/2) stay exact.        *)
(* Rotations are integers in quarter turns.  Objects live in a heap keyed   *)
(* by identity; the Document, the selection and the other references hold  *)
(* identities, as the JavaScript variables hold object references.         *)
(***************************************************************************)
EXTENDS Integers, Sequences, FiniteSets, TLC

VARIABLES
    currentImage,        \* [width, height] of the loaded image, NoImage before any load
    activeTool,
    currentShape,
    heap,                \* identity -> object, for every object some reference reaches
    drawingStack,        \* the Document: sequence of identities, z-order
    undoStack,           \* sequence of JSON documents
    redoStack,
    numberCounter,
    isDrawing,
    isDragging,
    selectedObject,      \* identity or NoRef
    hoveredObject,
    startX, startY, offsetX, offsetY,
    isCropping,
    cropRect,            \* <<x, y, width, height>> or <<>>
    cropButtons,         \* BOOLEAN: the Apply/Cancel buttons are shown
    cropPending,         \* crops whose new image has not loaded yet: sequence of <<x, y, width, height>>
    currentEraserStroke, \* BOOLEAN: {isActive: true} or null
    currentBrushStroke,  \* identity or NoRef
    isShiftPressed,
    textFormatting,      \* [size, bold]
    isEditingText,
    currentTextObj,      \* identity or NoRef
    textCursor,
    textBlinkTimer,      \* BOOLEAN: an interval handle is stored
    liveIntervals,       \* number of caret intervals that were started and not cleared
    textListeners,       \* number of attached handleGlobalKeydown/handleClickOutside pairs
    pendingAttach,       \* number of 100 ms timeouts that will attach a pair
    resizeHandle,        \* "none", "rotate", "nw-resize", "ne-resize", "sw-resize", "se-resize"
    initialBounds,       \* [x, y, width, height] or NoBounds
    initialMousePos,     \* <<x, y>> or <<>>
    colorPicker,
    lineWidth,
    inputChangeTimeout   \* BOOLEAN: the debounce timer of the colour/size inputs is pending

vars == <<currentImage, activeTool, currentShape, heap, drawingStack, undoStack,
          redoStack, numberCounter, isDrawing, isDragging, selectedObject,
          hoveredObject, startX, startY, offsetX, offsetY, isCropping, cropRect,
          cropButtons, cropPending, currentEraserStroke, currentBrushStroke, isShiftPressed,
          textFormatting, isEditingText, currentTextObj, textCursor,
          textBlinkTimer, liveIntervals, textListeners, pendingAttach,
          resizeHandle, initialBounds, initialMousePos, colorPicker, lineWidth,
          inputChangeTimeout>>

(***************************************************************************)
(* JavaScript values.  A numeric field holds an integer or one of three    *)
(* reserved values; arithmetic and comparison follow the language: null    *)
(* counts as 0, undefined and NaN give NaN, a comparison with NaN is false.*)
(***************************************************************************)
Px(n) == 4 * n

JsUndefined == 0 - 900001
JsNull == 0 - 900002
JsNaN == 0 - 900003
\* a non-finite quotient; arithmetic on it is carried as NaN
JsInfinity == 0 - 900005

NoRef == 0

ToNum(v) ==
    IF v = JsUndefined \/ v = JsNaN \/ v = JsInfinity THEN JsNaN ELSE IF v = JsNull THEN 0 ELSE v

IsNum(v) == ToNum(v) # JsNaN

Truthy(v) == v # JsUndefined /\ v # JsNull /\ v # JsNaN /\ v # 0

JsOr(v, d) == IF Truthy(v) THEN v ELSE d

JsAdd(a, b) == IF IsNum(a) /\ IsNum(b) THEN ToNum(a) + ToNum(b) ELSE JsNaN

JsSub(a, b) == IF IsNum(a) /\ IsNum(b) THEN ToNum(a) - ToNum(b) ELSE JsNaN

JsMul(a, b) == IF IsNum(a) /\ IsNum(b) THEN ToNum(a) * ToNum(b) ELSE JsNaN

JsHalf(a) == IF IsNum(a) THEN ToNum(a) \div 2 ELSE JsNaN

JsLe(a, b) == IsNum(a) /\ IsNum(b) /\ ToNum(a) <= ToNum(b)

JsLt(a, b) == IsNum(a) /\ IsNum(b) /\ ToNum(a) < ToNum(b)

JsGe(a, b) == JsLe(b, a)

JsGt(a, b) == JsLt(b, a)

Abs(n) == IF n < 0 THEN 0 - n ELSE n

JsAbs(a) == IF IsNum(a) THEN Abs(ToNum(a)) ELSE JsNaN

Min2(a, b) == IF a <= b THEN a ELSE b

Max2(a, b) == IF a >= b THEN a ELSE b

SetMin(S) == CHOOSE m \in S : \A n \in S : m <= n

SetMax(S) == CHOOSE m \in S : \A n \in S : m >= n

\* parseInt of an input's value; the empty string of a cleared number input gives NaN
EmptyInput == 0 - 900004

parseInt(v) == IF v = EmptyInput THEN JsNaN ELSE v

(***************************************************************************)
(* Annotation objects: one record shape, a field the object does not have  *)
(* is undefined.                                                           *)
(***************************************************************************)
Blank ==
    [type |-> "none", x |-> JsUndefined, y |-> JsUndefined,
     width |-> JsUndefined, height |-> JsUndefined, radius |-> JsUndefined,
     number |-> JsUndefined, lineWidth |-> JsUndefined, color |-> "undefined",
     rotation |-> JsUndefined, originalWidth |-> JsUndefined,
     originalHeight |-> JsUndefined, originalSize |-> JsUndefined,
     initialRotation |-> JsUndefined, text |-> <<>>, size |-> JsUndefined,
     bold |-> "undefined", isAllSelected |-> "undefined", points |-> <<>>]

NumericFields ==
    {"x", "y", "width", "height", "radius", "number", "lineWidth", "rotation",
     "originalWidth", "originalHeight", "originalSize", "initialRotation", "size"}

NoBounds == [x |-> JsUndefined, y |-> JsUndefined, width |-> JsUndefined, height |-> JsUndefined]

NoImage == [width |-> 0, height |-> 0]

\* JSON.stringify of one number: NaN is written as null; an undefined field is left out
JsonNumber(v) == IF v = JsNaN \/ v = JsInfinity THEN JsNull ELSE v

\* JSON.stringify(drawingStack) followed by the JSON.parse that undo/redo apply:
\* the document of plain values a snapshot string stands for
JsonObject(obj) ==
    [f \in DOMAIN obj |-> IF f \in NumericFields THEN JsonNumber(obj[f]) ELSE obj[f]]

DocValue == [i \in 1..Len(drawingStack) |-> heap[drawingStack[i]]]

JsonStringify(doc) == [i \in 1..Len(doc) |-> JsonObject(doc[i])]

JsonParse(str) == str

(***************************************************************************)
(* Geometry                                                                *)
(***************************************************************************)
\* ctx.measureText(text).width: every glyph is taken half as wide as the font
\* size; a size the font string cannot carry leaves the fresh context's 10px font
CharWidth(size) == IF IsNum(size) /\ size # JsNull /\ size > 0 THEN size \div 2 ELSE Px(5)

MeasureText(obj) == Len(obj.text) * CharWidth(obj.size)

PointsX(obj) == {obj.points[i][1] : i \in 1..Len(obj.points)}

PointsY(obj) == {obj.points[i][2] : i \in 1..Len(obj.points)}

Box(x, y, width, height) == [x |-> x, y |-> y, width |-> width, height |-> height]

\* the box from (minX, minY) to (maxX, maxY)
Span(minX, minY, maxX, maxY) == Box(minX, minY, JsSub(maxX, minX), JsSub(maxY, minY))

\* the per-kind box of getObjectBounds, before rotation
BaseBounds(obj) ==
    IF obj.type = "numbers"
    THEN Box(JsSub(obj.x, obj.radius), JsSub(obj.y, obj.radius),
             JsMul(obj.radius, 2), JsMul(obj.radius, 2))
    ELSE IF obj.type = "text"
    THEN Box(obj.x, obj.y, MeasureText(obj), obj.size)
    ELSE IF obj.type = "brush"
    THEN IF Len(obj.points) > 0
         THEN Span(JsSub(SetMin(PointsX(obj)), JsHalf(obj.lineWidth)),
                   JsSub(SetMin(PointsY(obj)), JsHalf(obj.lineWidth)),
                   JsAdd(SetMax(PointsX(obj)), JsHalf(obj.lineWidth)),
                   JsAdd(SetMax(PointsY(obj)), JsHalf(obj.lineWidth)))
         ELSE Box(JsSub(obj.x, JsHalf(obj.lineWidth)), JsSub(obj.y, JsHalf(obj.lineWidth)),
                  obj.lineWidth, obj.lineWidth)
    ELSE Box(obj.x, obj.y, JsOr(obj.width, 0), JsOr(obj.height, 0))

\* (dx, dy) turned by k quarter turns: cos and sin are 0, 1 or -1
RotX(dx, dy, k) ==
    IF k % 4 = 0 THEN dx ELSE IF k % 4 = 1 THEN 0 - dy ELSE IF k % 4 = 2 THEN 0 - dx ELSE dy

RotY(dx, dy, k) ==
    IF k % 4 = 0 THEN dy ELSE IF k % 4 = 1 THEN dx ELSE IF k % 4 = 2 THEN 0 - dy ELSE 0 - dx

\* the doubled corners of the box (x, y, w, h), taken from its doubled centre
CornerOffsets(w, h) == {<<0 - w, 0 - h>>, <<w, 0 - h>>, <<w, h>>, <<0 - w, h>>}

\* the box around doubled coordinates xs and ys
HalvedSpan(xs, ys) ==
    Box(SetMin(xs) \div 2, SetMin(ys) \div 2,
        (SetMax(xs) - SetMin(xs)) \div 2, (SetMax(ys) - SetMin(ys)) \div 2)

TurnedBox(x, y, w, h, k) ==
    HalvedSpan({2 * x + w + RotX(c[1], c[2], k) : c \in CornerOffsets(w, h)},
               {2 * y + h + RotY(c[1], c[2], k) : c \in CornerOffsets(w, h)})

\* the axis-aligned box of the four corners turned about the box's centre;
\* computed on doubled coordinates so that the centre is an integer
RotatedBounds(b, k) ==
    IF ~(IsNum(b.x) /\ IsNum(b.y) /\ IsNum(b.width) /\ IsNum(b.height))
    THEN Box(JsNaN, JsNaN, JsNaN, JsNaN)
    ELSE TurnedBox(ToNum(b.x), ToNum(b.y), ToNum(b.width), ToNum(b.height), k)

\* getObjectBounds without the early return for numbers and circles
BoundsTurned(obj, bounds) ==
    IF Truthy(obj.rotation) THEN RotatedBounds(bounds, obj.rotation) ELSE bounds

BoundsOf(obj, bounds) ==
    IF Truthy(obj.rotation)
    THEN IF obj.type = "numbers" \/ obj.type = "circle"
         THEN bounds
         ELSE RotatedBounds(bounds, obj.rotation)
    ELSE bounds

getObjectBounds(obj) == BoundsOf(obj, BaseBounds(obj))

\* a / b <= c / d for a, c >= 0 and b, d > 0, without forming the products
RECURSIVE FracLe(_, _, _, _)
FracLe(a, b, c, d) ==
    IF a \div b < c \div d THEN TRUE
    ELSE IF a \div b > c \div d THEN FALSE
    ELSE IF a % b = 0 THEN TRUE
    ELSE IF c % d = 0 THEN FALSE
    ELSE FracLe(d, c % d, b, a % b)

\* the distance from (px, py) to the segment from (ax, ay) along (dx, dy) is at most
\* tol, decided on squares: inside the segment the squared distance is cross^2 / len2
SegmentNear(px, py, dx, dy, len2, dot, cross, t2) ==
    IF len2 = 0 \/ dot <= 0 THEN px * px + py * py <= t2
    ELSE IF dot >= len2 THEN (px - dx) * (px - dx) + (py - dy) * (py - dy) <= t2
    ELSE IF cross = 0 THEN TRUE
    ELSE IF t2 = 0 THEN FALSE
    ELSE FracLe(cross, t2, len2, cross)

SegmentTest(px, py, dx, dy, tol) ==
    SegmentNear(px, py, dx, dy, dx * dx + dy * dy, px * dx + py * dy,
                Abs(px * dy - py * dx), tol * tol)

\* distanceToLineSegment(px, py, x1, y1, x2, y2) <= tol
distanceToLineSegmentLe(px, py, x1, y1, x2, y2, tol) ==
    IF ~(IsNum(x1) /\ IsNum(y1) /\ IsNum(x2) /\ IsNum(y2) /\ IsNum(tol))
    THEN FALSE
    ELSE SegmentTest(px - ToNum(x1), py - ToNum(y1), ToNum(x2) - ToNum(x1),
                     ToNum(y2) - ToNum(y1), ToNum(tol))

InBox(bounds, x, y) ==
    /\ JsGe(x, JsSub(bounds.x, Px(3)))
    /\ JsLe(x, JsAdd(JsAdd(bounds.x, bounds.width), Px(3)))
    /\ JsGe(y, JsSub(bounds.y, Px(3)))
    /\ JsLe(y, JsAdd(JsAdd(bounds.y, bounds.height), Px(3)))

\* the test getObjectAt applies to one object
HitsObject(obj, x, y) ==
    IF obj.type = "brush" /\ Len(obj.points) > 0
    THEN \E j \in 1..(Len(obj.points) - 1) :
            distanceToLineSegmentLe(x, y, obj.points[j][1], obj.points[j][2],
                                    obj.points[j + 1][1], obj.points[j + 1][2],
                                    JsAdd(JsHalf(obj.lineWidth), Px(2)))
    ELSE IF obj.type = "arrow"
    THEN distanceToLineSegmentLe(x, y, obj.x, obj.y, JsAdd(obj.x, obj.width),
                                 JsAdd(obj.y, obj.height), JsAdd(JsHalf(obj.lineWidth), Px(2)))
    ELSE InBox(getObjectBounds(obj), x, y)

\* getObjectAt over an explicit document
RECURSIVE ScanDown(_, _, _, _, _)
\* the loop of getObjectAt from index i down: the first identity that is hit
ScanDown(h, ds, i, x, y) ==
    IF i = 0 THEN NoRef
    ELSE IF HitsObject(h[ds[i]], x, y) THEN ds[i]
    ELSE ScanDown(h, ds, i - 1, x, y)

ObjectAtIn(h, ds, x, y) == ScanDown(h, ds, Len(ds), x, y)

getObjectAt(x, y) == ObjectAtIn(heap, drawingStack, x, y)

NearCorner(x, y, cx, cy) == JsLe(JsAbs(JsSub(x, cx)), Px(4)) /\ JsLe(JsAbs(JsSub(y, cy)), Px(4))

\* (x, y) is within 12px of the rotate handle at (bx + bw/2, by - 20px); compared
\* on doubled coordinates
RotateNear(x, y, bx, by, bw) ==
    (2 * x - (2 * bx + bw)) * (2 * x - (2 * bx + bw))
    + (2 * y - 2 * (by - Px(20))) * (2 * y - 2 * (by - Px(20))) <= (2 * Px(12)) * (2 * Px(12))

\* the handle of the box bounds under (x, y)
HandleOfBox(x, y, bounds) ==
    IF /\ IsNum(bounds.x) /\ IsNum(bounds.y) /\ IsNum(bounds.width)
       /\ RotateNear(x, y, ToNum(bounds.x), ToNum(bounds.y), ToNum(bounds.width))
    THEN "rotate"
    ELSE IF NearCorner(x, y, JsSub(bounds.x, Px(2)), JsSub(bounds.y, Px(2)))
    THEN "nw-resize"
    ELSE IF NearCorner(x, y, JsSub(JsAdd(bounds.x, bounds.width), Px(2)), JsSub(bounds.y, Px(2)))
    THEN "ne-resize"
    ELSE IF NearCorner(x, y, JsSub(bounds.x, Px(2)), JsSub(JsAdd(bounds.y, bounds.height), Px(2)))
    THEN "sw-resize"
    ELSE IF NearCorner(x, y, JsSub(JsAdd(bounds.x, bounds.width), Px(2)),
                       JsSub(JsAdd(bounds.y, bounds.height), Px(2)))
    THEN "se-resize"
    ELSE "none"

getResizeHandle(x, y, obj) == HandleOfBox(x, y, getObjectBounds(obj))

(***************************************************************************)
(* References.  Every handler ends by storing the heap, the Document and   *)
(* the four object references through Commit, which keeps exactly the      *)
(* objects some reference reaches and names them canonically: the Document *)
(* objects 1..n in z-order, then the detached objects that are still       *)
(* referenced.                                                             *)
(***************************************************************************)
Range(f) == {f[i] : i \in DOMAIN f}

PositionIn(seq, r) == CHOOSE i \in DOMAIN seq : seq[i] = r

AppendNew(seq, r, ds) ==
    IF r # NoRef /\ r \notin Range(ds) /\ r \notin Range(seq) THEN Append(seq, r) ELSE seq

Commit(h, ds, sel, hov, cto, cbs) ==
    LET n == Len(ds)
        det == AppendNew(AppendNew(AppendNew(AppendNew(<<>>, sel, ds), hov, ds), cto, ds), cbs, ds)
        name(r) == IF r = NoRef THEN NoRef
                   ELSE IF r \in Range(ds) THEN PositionIn(ds, r)
                   ELSE n + PositionIn(det, r)
    IN /\ heap' = [i \in 1..(n + Len(det)) |-> IF i <= n THEN h[ds[i]] ELSE h[det[i - n]]]
       /\ drawingStack' = [i \in 1..n |-> i]
       /\ selectedObject' = name(sel)
       /\ hoveredObject' = name(hov)
       /\ currentTextObj' = name(cto)
       /\ currentBrushStroke' = name(cbs)

refVars == <<heap, drawingStack, selectedObject, hoveredObject, currentTextObj, currentBrushStroke>>

histVars == <<undoStack, redoStack>>

gestureVars == <<isDrawing, isDragging, startX, startY, offsetX, offsetY, resizeHandle,
                 initialBounds, initialMousePos, currentEraserStroke>>

cropVars == <<isCropping, cropRect, cropButtons, cropPending>>

toolVars == <<activeTool, currentShape, colorPicker, lineWidth, textFormatting, isShiftPressed>>

textVars == <<isEditingText, textCursor, textBlinkTimer, liveIntervals, textListeners, pendingAttach>>

miscVars == <<currentImage, numberCounter, inputChangeTimeout>>

\* drawingStack.indexOf(obj), 0 for -1
indexOf(ds, r) == IF r \in Range(ds) THEN PositionIn(ds, r) ELSE 0

\* drawingStack.splice(index, 1) for index >= 1
RemoveAt(ds, i) == [j \in 1..(Len(ds) - 1) |-> IF j < i THEN ds[j] ELSE ds[j + 1]]

\* drawingStack.splice(drawingStack.indexOf(obj), 1): index -1 removes the last element
spliceIndexOf(ds, r) ==
    IF r \in Range(ds) THEN RemoveAt(ds, PositionIn(ds, r))
    ELSE IF Len(ds) = 0 THEN ds
    ELSE RemoveAt(ds, Len(ds))

(***************************************************************************)
(* History                                                                 *)
(***************************************************************************)
\* the undo stack after pushToUndoStack(); the redo stack becomes empty
\* pushToUndoStack that takes no snapshot
pushToUndoStackSkipped == undoStack

pushToUndoStack == Append(undoStack, JsonStringify(DocValue))

Push ==
    /\ undoStack' = pushToUndoStack
    /\ redoStack' = <<>>

\* the Document value and the two stacks
HistoryState == [doc |-> DocValue, undo |-> undoStack, redo |-> redoStack]

\* undo() without its guard on the empty stack: the push on the redo stack is made
\* before JSON.parse of the missing snapshot fails
undoOfUnguarded(st) ==
    IF Len(st.undo) = 0 THEN [st EXCEPT !.redo = Append(st.redo, JsonStringify(st.doc))]
    ELSE [doc |-> JsonParse(st.undo[Len(st.undo)]),
          undo |-> SubSeq(st.undo, 1, Len(st.undo) - 1),
          redo |-> Append(st.redo, JsonStringify(st.doc))]

\* undo() on the Document value and the stacks
undoOf(st) ==
    IF Len(st.undo) = 0 THEN st
    ELSE [doc |-> JsonParse(st.undo[Len(st.undo)]),
          undo |-> SubSeq(st.undo, 1, Len(st.undo) - 1),
          redo |-> Append(st.redo, JsonStringify(st.doc))]

\* redo() on the Document value and the stacks
redoOf(st) ==
    IF Len(st.redo) = 0 THEN st
    ELSE [doc |-> JsonParse(st.redo[Len(st.redo)]),
          undo |-> Append(st.undo, JsonStringify(st.doc)),
          redo |-> SubSeq(st.redo, 1, Len(st.redo) - 1)]

\* the identities of the objects JSON.parse builds for a document of n objects
ParsedStack(n) == [i \in 1..n |-> Len(heap) + i]

\* undo() or redo() without "selectedObject = null"
RestoreKeepingSelection(st) ==
    /\ undoStack' = st.undo
    /\ redoStack' = st.redo
    /\ Commit(heap \o st.doc, ParsedStack(Len(st.doc)), selectedObject, hoveredObject,
              currentTextObj, currentBrushStroke)
    /\ UNCHANGED <<gestureVars, cropVars, toolVars, textVars, miscVars>>

\* store the result of undo() or redo(): fresh objects, selection cleared
Restore(st) ==
    /\ undoStack' = st.undo
    /\ redoStack' = st.redo
    /\ Commit(heap \o st.doc, ParsedStack(Len(st.doc)), NoRef, hoveredObject,
              currentTextObj, currentBrushStroke)
    /\ UNCHANGED <<gestureVars, cropVars, toolVars, textVars, miscVars>>

undo == IF Len(undoStack) = 0 THEN UNCHANGED vars ELSE Restore(undoOf(HistoryState))

redo == IF Len(redoStack) = 0 THEN UNCHANGED vars ELSE Restore(redoOf(HistoryState))

(***************************************************************************)
(* Image load, tools                                                       *)
(***************************************************************************)
\* img.onload of handleImage
handleImage(w, h) ==
    /\ currentImage' = [width |-> w, height |-> h]
    /\ undoStack' = <<>>
    /\ redoStack' = <<>>
    /\ numberCounter' = 1
    /\ Commit(heap, <<>>, NoRef, hoveredObject, currentTextObj, currentBrushStroke)
    /\ UNCHANGED <<gestureVars, cropVars, toolVars, textVars, inputChangeTimeout>>

DefaultSize(tool) ==
    IF tool \in {"rect", "circle", "shape", "check", "cross"} THEN 5
    ELSE IF tool = "numbers" THEN 20
    ELSE IF tool = "text" THEN 50
    ELSE IF tool = "blur" THEN 69
    ELSE 10

toolsWithOptions ==
    {"rect", "circle", "arrow", "text", "blur", "numbers", "eraser", "brush", "shape", "check", "cross"}

\* the state setActiveTool(tool) writes besides the selection
ToolState(tool) ==
    /\ activeTool' = tool
    /\ colorPicker' = IF tool = "check" THEN "#4caf50"
                      ELSE IF tool = "cross" THEN "#f44336"
                      ELSE colorPicker
    /\ lineWidth' = DefaultSize(tool)
    /\ textFormatting' = IF tool = "text"
                         THEN [textFormatting EXCEPT !.size = Px(DefaultSize(tool))]
                         ELSE textFormatting
    /\ IF activeTool = "crop"
       THEN /\ isCropping' = FALSE
            /\ cropRect' = <<>>
            /\ cropButtons' = FALSE
       ELSE UNCHANGED <<isCropping, cropRect, cropButtons>>
    /\ UNCHANGED cropPending

setActiveTool(tool) ==
    /\ ToolState(tool)
    /\ Commit(heap, drawingStack, NoRef, hoveredObject, currentTextObj, currentBrushStroke)
    /\ UNCHANGED <<currentShape, isShiftPressed, histVars, gestureVars, textVars, miscVars>>

\* keydown listener, tool shortcuts: not while editing text
KeyTool(tool) ==
    /\ ~isEditingText
    /\ setActiveTool(tool)

\* toolbar click listener
ToolbarClick(tool) == setActiveTool(tool)

\* shapeMenu click listener
ShapeMenuClick(shape) ==
    /\ currentShape' = shape
    /\ ToolState(IF shape = "rect" \/ shape = "circle" THEN shape ELSE "shape")
    /\ Commit(heap, drawingStack, NoRef, hoveredObject, currentTextObj, currentBrushStroke)
    /\ UNCHANGED <<isShiftPressed, histVars, gestureVars, textVars, miscVars>>

(***************************************************************************)
(* keydown listener: Shift, Ctrl+Z, Ctrl+Y, Delete, Escape                 *)
(***************************************************************************)
KeyShift(down) ==
    /\ isShiftPressed' = down
    /\ UNCHANGED <<activeTool, currentShape, colorPicker, lineWidth, textFormatting,
                   refVars, histVars, gestureVars, cropVars, textVars, miscVars>>

KeyUndo == undo

KeyRedo == redo

KeyDelete ==
    IF selectedObject # NoRef
    THEN /\ Push
         /\ Commit(heap, spliceIndexOf(drawingStack, selectedObject), NoRef,
                   hoveredObject, currentTextObj, currentBrushStroke)
         /\ UNCHANGED <<gestureVars, cropVars, toolVars, textVars, miscVars>>
    ELSE UNCHANGED vars

cancelCrop ==
    /\ isCropping' = FALSE
    /\ cropRect' = <<>>
    /\ cropButtons' = FALSE
    /\ UNCHANGED cropPending

KeyEscape ==
    IF isCropping
    THEN /\ cancelCrop
         /\ UNCHANGED <<refVars, histVars, gestureVars, toolVars, textVars, miscVars>>
    ELSE IF selectedObject # NoRef
    THEN /\ Commit(heap, drawingStack, NoRef, hoveredObject, currentTextObj, currentBrushStroke)
         /\ UNCHANGED <<histVars, gestureVars, cropVars, toolVars, textVars, miscVars>>
    ELSE UNCHANGED vars

(***************************************************************************)
(* Object creation                                                         *)
(***************************************************************************)
NoObject == Blank

\* createObject with the arrow snap taken only when both deltas are under 10px
createObjectSnapBoth(x1, y1, x2, y2) ==
    IF activeTool = "numbers"
    THEN [Blank EXCEPT !.type = "numbers", !.color = colorPicker, !.rotation = 0,
                       !.x = x1, !.y = y1, !.number = numberCounter, !.radius = Px(lineWidth)]
    ELSE IF activeTool = "eraser"
    THEN NoObject
    ELSE IF activeTool = "arrow"
    THEN [Blank EXCEPT
            !.type = "arrow", !.color = colorPicker, !.rotation = 0,
            !.x = x1, !.y = y1,
            !.width = IF Abs(x2 - x1) < Px(10) /\ Abs(y2 - y1) < Px(10)
                      THEN (IF x2 - x1 >= 0 THEN Px(10) ELSE 0 - Px(10)) ELSE x2 - x1,
            !.height = IF Abs(x2 - x1) < Px(10) /\ Abs(y2 - y1) < Px(10)
                       THEN (IF y2 - y1 >= 0 THEN Px(10) ELSE 0 - Px(10)) ELSE y2 - y1,
            !.lineWidth = Px(lineWidth),
            !.originalWidth = Abs(x2 - x1), !.originalHeight = Abs(y2 - y1)]
    ELSE [Blank EXCEPT
            !.type = IF activeTool = "shape" THEN currentShape ELSE activeTool,
            !.color = IF activeTool = "check" \/ (activeTool = "shape" /\ currentShape = "check")
                      THEN "#4caf50" ELSE colorPicker,
            !.rotation = 0,
            !.x = Min2(x1, x2), !.y = Min2(y1, y2),
            !.width = Abs(x2 - x1), !.height = Abs(y2 - y1),
            !.lineWidth = Px(lineWidth),
            !.originalWidth = Abs(x2 - x1), !.originalHeight = Abs(y2 - y1)]

\* createObject without its branches for the numbers tool and the eraser
createObjectAlways(x1, y1, x2, y2) ==
    [Blank EXCEPT
       !.type = IF activeTool = "shape" THEN currentShape ELSE activeTool,
       !.color = colorPicker,
       !.rotation = 0,
       !.x = Min2(x1, x2), !.y = Min2(y1, y2),
       !.width = Abs(x2 - x1), !.height = Abs(y2 - y1),
       !.lineWidth = Px(lineWidth),
       !.originalWidth = Abs(x2 - x1), !.originalHeight = Abs(y2 - y1)]

\* createObject without the flip of negative extents
createObjectSigned(x1, y1, x2, y2) ==
    IF activeTool = "numbers"
    THEN [Blank EXCEPT !.type = "numbers", !.color = colorPicker, !.rotation = 0,
                       !.x = x1, !.y = y1, !.number = numberCounter, !.radius = Px(lineWidth)]
    ELSE IF activeTool = "eraser"
    THEN NoObject
    ELSE [Blank EXCEPT
            !.type = IF activeTool = "shape" THEN currentShape ELSE activeTool,
            !.color = IF activeTool = "check" \/ (activeTool = "shape" /\ currentShape = "check")
                      THEN "#4caf50" ELSE colorPicker,
            !.rotation = 0,
            !.x = x1, !.y = y1, !.width = x2 - x1, !.height = y2 - y1,
            !.lineWidth = Px(lineWidth),
            !.originalWidth = Abs(x2 - x1), !.originalHeight = Abs(y2 - y1)]

createObject(x1, y1, x2, y2) ==
    LET base == [Blank EXCEPT
                   !.type = IF activeTool = "shape" THEN currentShape ELSE activeTool,
                   !.color = IF activeTool = "check" \/ (activeTool = "shape" /\ currentShape = "check")
                             THEN "#4caf50" ELSE colorPicker,
                   !.rotation = 0]
        w0 == x2 - x1
        h0 == y2 - y1
        snap == activeTool = "arrow" /\ (Abs(w0) < Px(10) \/ Abs(h0) < Px(10))
        width == IF snap THEN (IF w0 >= 0 THEN Px(10) ELSE 0 - Px(10)) ELSE w0
        height == IF snap THEN (IF h0 >= 0 THEN Px(10) ELSE 0 - Px(10)) ELSE h0
        flip == activeTool # "arrow" /\ (activeTool # "shape" \/ currentShape # "arrow")
    IN IF activeTool = "numbers"
       THEN [base EXCEPT !.x = x1, !.y = y1, !.number = numberCounter, !.radius = Px(lineWidth)]
       ELSE IF activeTool = "eraser"
       THEN NoObject
       ELSE [base EXCEPT
               !.x = IF flip /\ width < 0 THEN x2 ELSE x1,
               !.y = IF flip /\ height < 0 THEN y2 ELSE y1,
               !.width = IF flip /\ width < 0 THEN 0 - width ELSE width,
               !.height = IF flip /\ height < 0 THEN 0 - height ELSE height,
               !.lineWidth = Px(lineWidth),
               !.originalWidth = Abs(width),
               !.originalHeight = Abs(height)]

\* the mouseup listener without its shift rule
DrawExtentFree(dw, dh) == <<dw, dh>>

\* the shift rule of the mouseup listener: the drag extent handed to createObject
DrawExtent(dw, dh) ==
    LET currentTool == IF activeTool = "shape" THEN currentShape ELSE activeTool
        big == Max2(Abs(dw), Abs(dh))
        small == Min2(Abs(dw), Abs(dh))
    IN IF isShiftPressed
       THEN IF currentTool = "rect" \/ currentTool = "circle"
            THEN <<IF dw >= 0 THEN big ELSE 0 - big, IF dh >= 0 THEN big ELSE 0 - big>>
            ELSE <<dw, dh>>
       ELSE IF currentTool = "check" \/ currentTool = "cross"
            THEN <<IF dw >= 0 THEN small ELSE 0 - small, IF dh >= 0 THEN small ELSE 0 - small>>
            ELSE <<dw, dh>>

wasClick(endX, endY) == Abs(endX - startX) < Px(5) /\ Abs(endY - startY) < Px(5)

\* the arguments the mouseup listener hands to createObject, <<>> when it does not call it
CreateArgs(endX, endY) ==
    IF wasClick(endX, endY)
    THEN IF activeTool = "numbers"
         THEN <<endX, endY, JsUndefined, JsUndefined>>
         ELSE IF activeTool \in {"rect", "circle", "arrow", "blur", "shape"}
         THEN LET half == Px(lineWidth) \div 2
              IN <<startX - half, startY - half, startX + half, startY + half>>
         ELSE IF activeTool \in {"check", "cross"}
                 \/ (activeTool = "shape" /\ currentShape \in {"check", "cross"})
         THEN <<startX - Px(10), startY - Px(10), startX + Px(10), startY + Px(10)>>
         ELSE <<>>
    ELSE LET ext == DrawExtent(endX - startX, endY - startY)
         IN <<startX, startY, startX + ext[1], startY + ext[2]>>

(***************************************************************************)
(* Resize and rotate                                                       *)
(***************************************************************************)
\* Math.atan2(dy, dx) in quarter turns, for a direction along an axis
AngleOk(dx, dy) == dx = 0 \/ dy = 0

atan2(dy, dx) ==
    IF dy = 0 THEN (IF dx >= 0 THEN 0 ELSE 2)
    ELSE IF dy > 0 THEN 1 ELSE 0 - 1

\* a / b rounded toward zero on the quarter-pixel grid (exact when b divides a)
Quot(a, b) ==
    IF (a >= 0) = (b > 0) THEN Abs(a) \div Abs(b) ELSE 0 - (Abs(a) \div Abs(b))

\* orig, whatever the ratio
JsScaleUnscaled(orig, num, den) == orig

\* orig * (num / den)
JsScale(orig, num, den) ==
    IF ~(IsNum(orig) /\ IsNum(num) /\ IsNum(den)) THEN JsNaN
    ELSE IF ToNum(den) = 0
    THEN IF ToNum(orig) = 0 \/ ToNum(num) = 0 THEN JsNaN ELSE JsInfinity
    ELSE Quot(ToNum(orig) * ToNum(num), ToNum(den))

ResizedBounds(handleType, deltaX, deltaY) ==
    LET b == initialBounds
    IN IF handleType = "nw-resize"
       THEN [x |-> JsAdd(b.x, deltaX), y |-> JsAdd(b.y, deltaY),
             width |-> JsSub(b.width, deltaX), height |-> JsSub(b.height, deltaY)]
       ELSE IF handleType = "ne-resize"
       THEN [x |-> b.x, y |-> JsAdd(b.y, deltaY),
             width |-> JsAdd(b.width, deltaX), height |-> JsSub(b.height, deltaY)]
       ELSE IF handleType = "sw-resize"
       THEN [x |-> JsAdd(b.x, deltaX), y |-> b.y,
             width |-> JsSub(b.width, deltaX), height |-> JsAdd(b.height, deltaY)]
       ELSE IF handleType = "se-resize"
       THEN [x |-> b.x, y |-> b.y,
             width |-> JsAdd(b.width, deltaX), height |-> JsAdd(b.height, deltaY)]
       ELSE b

\* applyResize for a rectangle without the 5px minimum
applyResizeNoMinimum(obj, handleType, newX, newY, initialMouseX, initialMouseY) ==
    LET newBounds == ResizedBounds(handleType, newX - initialMouseX, newY - initialMouseY)
    IN [obj EXCEPT !.x = newBounds.x, !.y = newBounds.y,
                   !.width = JsScale(obj.originalWidth, newBounds.width, initialBounds.width),
                   !.height = JsScale(obj.originalHeight, newBounds.height, initialBounds.height)]

\* a rotate move that adds the angle to the rotation the object has now
applyResizeAccumulating(obj, handleType, newX, newY, initialMouseX, initialMouseY) ==
    LET cx2 == JsAdd(JsMul(initialBounds.x, 2), initialBounds.width)
        cy2 == JsAdd(JsMul(initialBounds.y, 2), initialBounds.height)
    IN [obj EXCEPT !.rotation = JsAdd(JsOr(obj.rotation, 0),
                                      atan2(2 * newY - cy2, 2 * newX - cx2)
                                      - atan2(2 * initialMouseY - cy2, 2 * initialMouseX - cx2))]

\* the object after applyResize(obj, handleType, newX, newY, initialMouseX, initialMouseY)
applyResize(obj, handleType, newX, newY, initialMouseX, initialMouseY) ==
    IF initialBounds = NoBounds THEN obj
    ELSE IF handleType = "rotate"
    THEN LET cx2 == JsAdd(JsMul(initialBounds.x, 2), initialBounds.width)
             cy2 == JsAdd(JsMul(initialBounds.y, 2), initialBounds.height)
             currentAngle == atan2(2 * newY - cy2, 2 * newX - cx2)
             initialAngle == atan2(2 * initialMouseY - cy2, 2 * initialMouseX - cx2)
         IN IF IsNum(cx2) /\ IsNum(cy2)
            THEN [obj EXCEPT !.rotation = JsAdd(JsOr(obj.initialRotation, 0),
                                                currentAngle - initialAngle)]
            ELSE [obj EXCEPT !.rotation = JsNaN]
    ELSE LET newBounds == ResizedBounds(handleType, newX - initialMouseX, newY - initialMouseY)
         IN IF JsLt(JsAbs(newBounds.width), Px(5)) \/ JsLt(JsAbs(newBounds.height), Px(5))
            THEN obj
            ELSE IF obj.type = "text"
            THEN LET originalSize == IF Truthy(obj.originalSize) THEN obj.originalSize ELSE obj.size
                     newSize == JsScale(originalSize, JsAbs(newBounds.height), initialBounds.height)
                 IN IF JsLt(newSize, Px(4))
                    THEN [obj EXCEPT !.originalSize = originalSize]
                    ELSE [obj EXCEPT !.originalSize = originalSize, !.x = newBounds.x,
                                     !.y = newBounds.y, !.size = newSize]
            ELSE LET originalWidth == IF Truthy(obj.originalWidth) THEN obj.originalWidth ELSE obj.width
                     originalHeight == IF Truthy(obj.originalHeight) THEN obj.originalHeight ELSE obj.height
                 IN [obj EXCEPT !.originalWidth = originalWidth,
                                !.originalHeight = originalHeight,
                                !.x = newBounds.x, !.y = newBounds.y,
                                !.width = JsScale(originalWidth, newBounds.width, initialBounds.width),
                                !.height = JsScale(originalHeight, newBounds.height, initialBounds.height)]

\* pointer positions whose rotate angles are quarter turns
RotateInputOk(x, y) ==
    LET cx2 == JsAdd(JsMul(initialBounds.x, 2), initialBounds.width)
        cy2 == JsAdd(JsMul(initialBounds.y, 2), initialBounds.height)
    IN \/ ~(IsNum(cx2) /\ IsNum(cy2))
       \/ /\ AngleOk(2 * x - cx2, 2 * y - cy2)
          /\ AngleOk(2 * initialMousePos[1] - cx2, 2 * initialMousePos[2] - cy2)

(***************************************************************************)
(* Text input                                                              *)
(***************************************************************************)
\* the object createTextInput(x, y) builds for a new label
NewTextObject(x, y) ==
    [Blank EXCEPT !.type = "text", !.x = x, !.y = y, !.text = <<>>,
                  !.color = colorPicker, !.size = textFormatting.size,
                  !.bold = textFormatting.bold, !.rotation = 0,
                  !.originalSize = textFormatting.size]

\* the editing state createTextInput sets: flag, cursor, caret interval, attach timeout
createTextInputState(cursor) ==
    /\ isEditingText' = TRUE
    /\ textCursor' = cursor
    /\ textBlinkTimer' = TRUE
    /\ liveIntervals' = liveIntervals + 1
    /\ pendingAttach' = pendingAttach + 1
    /\ UNCHANGED textListeners

\* lineWidth.value = v on the range input (min 1, max 100), v in quarter pixels
RangeValue(v) ==
    IF ~IsNum(v) \/ v = JsNull THEN 50
    ELSE Max2(1, Min2(100, ToNum(v) \div 4))

\* updateToolOptions(obj) for the selected object
updateToolOptions(obj) ==
    IF obj.type = "blur" \/ activeTool = "select"
       \/ activeTool \notin {"text", "brush", "rect", "circle", "arrow", "numbers", "shape", "check", "cross"}
    THEN UNCHANGED <<colorPicker, lineWidth>>
    ELSE /\ colorPicker' = obj.color
         /\ lineWidth' = RangeValue(IF obj.type = "text" THEN JsOr(obj.size, obj.radius)
                                    ELSE JsOr(obj.lineWidth, obj.radius))

(***************************************************************************)
(* mousedown listener                                                      *)
(***************************************************************************)
\* select and text tools, once the object and the handle are settled: start a
\* resize/rotate (handle set) or a move
StartTransform(sel, handle, x, y) ==
    LET obj == heap[sel]
        bounds == getObjectBounds(obj)
    IN /\ Push
       /\ resizeHandle' = handle
       /\ IF handle # "none"
          THEN /\ initialBounds' = bounds
               /\ initialMousePos' = <<x, y>>
               /\ Commit([heap EXCEPT ![sel].initialRotation = JsOr(obj.rotation, 0)],
                         drawingStack, sel, hoveredObject, currentTextObj, currentBrushStroke)
               /\ isDragging' = FALSE
               /\ UNCHANGED <<offsetX, offsetY>>
          ELSE /\ isDragging' = TRUE
               /\ offsetX' = JsSub(x, bounds.x)
               /\ offsetY' = JsSub(y, bounds.y)
               /\ Commit(heap, drawingStack, sel, hoveredObject, currentTextObj, currentBrushStroke)
               /\ UNCHANGED <<initialBounds, initialMousePos>>
       /\ updateToolOptions(obj)

MouseDownSelect(x, y) ==
    LET handle1 == IF selectedObject # NoRef
                   THEN getResizeHandle(x, y, heap[selectedObject])
                   ELSE resizeHandle
        sel == IF selectedObject # NoRef /\ handle1 # "none"
               THEN selectedObject
               ELSE getObjectAt(x, y)
        handle2 == IF sel # NoRef /\ handle1 = "none"
                   THEN getResizeHandle(x, y, heap[sel])
                   ELSE handle1
    IN /\ IF sel # NoRef
          THEN StartTransform(sel, handle2, x, y)
          ELSE /\ resizeHandle' = handle1
               /\ Commit(heap, drawingStack, NoRef, hoveredObject, currentTextObj, currentBrushStroke)
               /\ UNCHANGED <<histVars, isDragging, offsetX, offsetY, initialBounds,
                              initialMousePos, colorPicker, lineWidth>>
       /\ UNCHANGED <<activeTool, currentShape, textFormatting, isShiftPressed,
                      currentEraserStroke, cropVars, textVars, miscVars>>

MouseDownCrop(x, y) ==
    /\ isCropping' = TRUE
    /\ cropRect' = <<x, y, 0, 0>>
    /\ Commit(heap, drawingStack, NoRef, hoveredObject, currentTextObj, currentBrushStroke)
    /\ UNCHANGED <<cropButtons, cropPending, histVars, isDragging, offsetX, offsetY,
                   resizeHandle, initialBounds, initialMousePos, currentEraserStroke,
                   toolVars, textVars, miscVars>>

\* text tool, not editing: createTextInput(startX, startY) for a new label
MouseDownNewText(x, y) ==
    /\ Push
    /\ createTextInputState(0)
    /\ LET id == Len(heap) + 1
       IN Commit(Append(heap, NewTextObject(x, y)), Append(drawingStack, id), NoRef,
                 hoveredObject, id, currentBrushStroke)

MouseDownText(x, y) ==
    IF isEditingText
    THEN UNCHANGED <<refVars, histVars, isDragging, offsetX, offsetY, resizeHandle,
                     initialBounds, initialMousePos, currentEraserStroke, cropVars,
                     toolVars, textVars, miscVars>>
    ELSE LET selIsText == selectedObject # NoRef /\ heap[selectedObject].type = "text"
             handle1 == IF selIsText THEN getResizeHandle(x, y, heap[selectedObject]) ELSE "none"
             clicked == getObjectAt(x, y)
             clickedText == clicked # NoRef /\ heap[clicked].type = "text"
         IN IF selIsText /\ handle1 # "none"
            THEN /\ StartTransform(selectedObject, handle1, x, y)
                 /\ UNCHANGED <<activeTool, currentShape, textFormatting, isShiftPressed,
                                currentEraserStroke, cropVars, textVars, miscVars>>
            ELSE IF clickedText
            THEN /\ StartTransform(clicked, getResizeHandle(x, y, heap[clicked]), x, y)
                 /\ UNCHANGED <<activeTool, currentShape, textFormatting, isShiftPressed,
                                currentEraserStroke, cropVars, textVars, miscVars>>
            ELSE /\ MouseDownNewText(x, y)
                 /\ resizeHandle' = IF selIsText THEN handle1 ELSE resizeHandle
                 /\ UNCHANGED <<isDragging, offsetX, offsetY, initialBounds, initialMousePos,
                                currentEraserStroke, cropVars, toolVars, miscVars>>

\* every other tool: deselect, snapshot, then eraser and brush act at once
MouseDownDraw(x, y) ==
    /\ Push
    /\ IF activeTool = "eraser"
       THEN /\ Commit(heap, LET hit == getObjectAt(x, y)
                            IN IF hit # NoRef THEN RemoveAt(drawingStack, indexOf(drawingStack, hit))
                               ELSE drawingStack,
                      NoRef, hoveredObject, currentTextObj, currentBrushStroke)
            /\ currentEraserStroke' = TRUE
       ELSE IF activeTool = "brush"
       THEN /\ LET id == Len(heap) + 1
                   stroke == [Blank EXCEPT !.type = "brush", !.points = <<<<x, y>>>>,
                                           !.color = colorPicker, !.lineWidth = Px(lineWidth)]
               IN Commit(Append(heap, stroke), Append(drawingStack, id), NoRef,
                         hoveredObject, currentTextObj, id)
            /\ UNCHANGED currentEraserStroke
       ELSE /\ Commit(heap, drawingStack, NoRef, hoveredObject, currentTextObj, currentBrushStroke)
            /\ UNCHANGED currentEraserStroke
    /\ UNCHANGED <<isDragging, offsetX, offsetY, resizeHandle, initialBounds,
                   initialMousePos, cropVars, toolVars, textVars, miscVars>>

MouseDown(x, y) ==
    /\ currentImage # NoImage
    /\ startX' = x
    /\ startY' = y
    /\ isDrawing' = TRUE
    /\ IF activeTool = "select" THEN MouseDownSelect(x, y)
       ELSE IF activeTool = "crop" THEN MouseDownCrop(x, y)
       ELSE IF activeTool = "text" THEN MouseDownText(x, y)
       ELSE MouseDownDraw(x, y)

(***************************************************************************)
(* mousemove listeners: the drawing listener, then the hover listener      *)
(***************************************************************************)
MouseMoveDrawing(x, y) ==
    IF activeTool \in {"select", "text"} /\ selectedObject # NoRef
    THEN IF resizeHandle # "none" /\ initialBounds # NoBounds /\ initialMousePos # <<>>
         THEN /\ resizeHandle = "rotate" => RotateInputOk(x, y)
              /\ Commit([heap EXCEPT ![selectedObject] =
                            applyResize(@, resizeHandle, x, y, initialMousePos[1], initialMousePos[2])],
                        drawingStack, selectedObject, hoveredObject, currentTextObj, currentBrushStroke)
              /\ UNCHANGED <<cropRect>>
         ELSE IF isDragging
         THEN /\ Commit([heap EXCEPT ![selectedObject].x = JsSub(x, offsetX),
                                     ![selectedObject].y = JsSub(y, offsetY)],
                        drawingStack, selectedObject, hoveredObject, currentTextObj, currentBrushStroke)
              /\ UNCHANGED <<cropRect>>
         ELSE UNCHANGED <<refVars, cropRect>>
    ELSE IF activeTool = "crop" /\ isCropping
    THEN /\ cropRect' = <<cropRect[1], cropRect[2], x - cropRect[1], y - cropRect[2]>>
         /\ UNCHANGED refVars
    ELSE IF activeTool = "brush" /\ currentBrushStroke # NoRef
    THEN /\ Commit([heap EXCEPT ![currentBrushStroke].points = Append(@, <<x, y>>)],
                   drawingStack, selectedObject, hoveredObject, currentTextObj, currentBrushStroke)
         /\ UNCHANGED <<cropRect>>
    ELSE IF activeTool = "eraser" /\ currentEraserStroke
    THEN /\ Commit(heap, LET hit == getObjectAt(x, y)
                         IN IF hit # NoRef THEN RemoveAt(drawingStack, indexOf(drawingStack, hit))
                            ELSE drawingStack,
                   selectedObject, hoveredObject, currentTextObj, currentBrushStroke)
         /\ UNCHANGED <<cropRect>>
    ELSE UNCHANGED <<refVars, cropRect>>

MouseMoveHover(x, y) ==
    /\ IF isEditingText
       THEN UNCHANGED refVars
       ELSE IF activeTool \in {"select", "text"}
       THEN Commit(heap, drawingStack, selectedObject,
                   IF selectedObject # NoRef THEN NoRef ELSE getObjectAt(x, y),
                   currentTextObj, currentBrushStroke)
       ELSE Commit(heap, drawingStack, selectedObject, NoRef, currentTextObj, currentBrushStroke)
    /\ UNCHANGED cropRect

MouseMove(x, y) ==
    /\ currentImage # NoImage
    /\ IF isDrawing THEN MouseMoveDrawing(x, y) ELSE MouseMoveHover(x, y)
    /\ UNCHANGED <<histVars, gestureVars, isCropping, cropButtons, cropPending, toolVars,
                   textVars, miscVars>>

(***************************************************************************)
(* mouseup listener, then the click the gesture produces                   *)
(***************************************************************************)
\* applyText() on heap h and Document ds: leave Editing, clear the stored caret
\* interval, remove the label when its text trims to nothing, detach the
\* listener pair that ran, clear the selection
IsBlankText(text) == \A i \in 1..Len(text) : text[i] = " "

\* applyText that leaves an empty label in the Document
applyTextKeeping(h, ds, cbs) ==
    /\ isEditingText' = FALSE
    /\ textBlinkTimer' = FALSE
    /\ liveIntervals' = IF textBlinkTimer THEN liveIntervals - 1 ELSE liveIntervals
    /\ textListeners' = textListeners - 1
    /\ textCursor' = 0
    /\ Commit(h, ds, NoRef, hoveredObject, NoRef, cbs)
    /\ UNCHANGED pendingAttach

applyText(h, ds, cbs) ==
    /\ isEditingText' = FALSE
    /\ textBlinkTimer' = FALSE
    /\ liveIntervals' = IF textBlinkTimer THEN liveIntervals - 1 ELSE liveIntervals
    /\ textListeners' = textListeners - 1
    /\ textCursor' = 0
    /\ Commit(h,
              IF IsBlankText(h[currentTextObj].text) /\ currentTextObj \in Range(ds)
              THEN RemoveAt(ds, PositionIn(ds, currentTextObj))
              ELSE ds,
              NoRef, hoveredObject, NoRef, cbs)
    /\ UNCHANGED pendingAttach

\* the cursor index handleClickOutside finds for a click inside the label
CursorFromClick(obj, clickX) ==
    LET w == CharWidth(obj.size)
        stops == {i \in 0..Len(obj.text) :
                    JsLe(clickX, JsAdd(JsAdd(obj.x, i * w), (IF i < Len(obj.text) THEN w ELSE 0) \div 2))}
    IN IF stops = {} THEN Len(obj.text) + 1 ELSE SetMin(stops)

\* the resize commit of the mouseup listener
CommitResize(obj) ==
    IF obj.type = "text"
    THEN [obj EXCEPT !.originalSize = obj.size, !.initialRotation = JsUndefined]
    ELSE [obj EXCEPT !.originalWidth = JsAbs(obj.width), !.originalHeight = JsAbs(obj.height),
                     !.initialRotation = JsUndefined]

\* what the mouseup listener leaves: heap, Document, counter, crop state
\* (before the click listener runs)
UpHeap(x, y) ==
    LET created == IF activeTool \notin {"select", "text"} /\ ~(activeTool = "crop" /\ isCropping)
                      /\ CreateArgs(x, y) # <<>>
                   THEN createObject(CreateArgs(x, y)[1], CreateArgs(x, y)[2],
                                     CreateArgs(x, y)[3], CreateArgs(x, y)[4])
                   ELSE NoObject
        h1 == IF created # NoObject THEN Append(heap, created) ELSE heap
    IN IF resizeHandle # "none" /\ selectedObject # NoRef /\ initialBounds # NoBounds
       THEN [h1 EXCEPT ![selectedObject] = CommitResize(@)]
       ELSE h1

UpStack(x, y) ==
    IF activeTool \notin {"select", "text"} /\ ~(activeTool = "crop" /\ isCropping)
       /\ CreateArgs(x, y) # <<>>
       /\ createObject(CreateArgs(x, y)[1], CreateArgs(x, y)[2],
                       CreateArgs(x, y)[3], CreateArgs(x, y)[4]) # NoObject
    THEN Append(drawingStack, Len(heap) + 1)
    ELSE drawingStack

\* createObject with "number: numberCounter" in place of "numberCounter++"
CounterKept(args) == numberCounter

\* numberCounter after the mouseup listener: createObject evaluates numberCounter++
\* for the numbers tool whenever it is called
CounterAfter(args) ==
    IF activeTool = "numbers" /\ args # <<>> THEN numberCounter + 1 ELSE numberCounter

MouseUpListener(x, y) ==
    /\ IF activeTool = "crop" /\ isCropping
       THEN IF ~wasClick(x, y) /\ Abs(cropRect[3]) > Px(10) /\ Abs(cropRect[4]) > Px(10)
            THEN /\ cropButtons' = TRUE
                 /\ UNCHANGED <<isCropping, cropRect>>
            ELSE /\ isCropping' = FALSE
                 /\ cropRect' = <<>>
                 /\ UNCHANGED cropButtons
       ELSE UNCHANGED <<isCropping, cropRect, cropButtons>>
    /\ numberCounter' = CounterAfter(CreateArgs(x, y))
    /\ isDrawing' = FALSE
    /\ isDragging' = FALSE
    /\ resizeHandle' = "none"
    /\ initialBounds' = NoBounds
    /\ initialMousePos' = <<>>
    /\ currentEraserStroke' = FALSE

\* handleClickOutside on a click at (x, y), run on the state the mouseup listener left
ClickCommits(h, x, y) ==
    LET bounds == getObjectBounds(h[currentTextObj])
    IN ~(/\ JsGe(x, bounds.x) /\ JsLe(x, JsAdd(bounds.x, bounds.width))
         /\ JsGe(y, bounds.y) /\ JsLe(y, JsAdd(bounds.y, bounds.height)))

MouseUp(x, y) ==
    IF currentImage = NoImage \/ ~isDrawing
    THEN /\ isDrawing' = FALSE
         /\ isDragging' = FALSE
         /\ currentEraserStroke' = FALSE
         /\ Commit(heap, drawingStack, selectedObject, hoveredObject, currentTextObj, NoRef)
         /\ UNCHANGED <<histVars, startX, startY, offsetX, offsetY, resizeHandle, initialBounds,
                        initialMousePos, cropVars, toolVars, textVars, miscVars>>
    ELSE /\ MouseUpListener(x, y)
         /\ IF isEditingText /\ textListeners > 0
            THEN IF ClickCommits(UpHeap(x, y), x, y)
                 THEN applyText(UpHeap(x, y), UpStack(x, y), NoRef)
                 ELSE /\ textCursor' = CursorFromClick(UpHeap(x, y)[currentTextObj], x)
                      /\ Commit(UpHeap(x, y), UpStack(x, y), selectedObject, hoveredObject,
                                currentTextObj, NoRef)
                      /\ UNCHANGED <<isEditingText, textBlinkTimer, liveIntervals,
                                     textListeners, pendingAttach>>
            ELSE /\ Commit(UpHeap(x, y), UpStack(x, y), selectedObject, hoveredObject,
                           currentTextObj, NoRef)
                 /\ UNCHANGED textVars
         /\ UNCHANGED <<histVars, startX, startY, offsetX, offsetY, cropPending, toolVars,
                        currentImage, inputChangeTimeout>>

(***************************************************************************)
(* dblclick listener, text editing keys, timers                            *)
(***************************************************************************)
DblClick(x, y) ==
    /\ currentImage # NoImage
    /\ LET clicked == getObjectAt(x, y)
       IN IF clicked # NoRef /\ heap[clicked].type = "text"
          THEN /\ createTextInputState(Len(heap[clicked].text))
               /\ Commit(heap, drawingStack, selectedObject, hoveredObject, clicked,
                         currentBrushStroke)
          ELSE UNCHANGED <<refVars, textVars>>
    /\ UNCHANGED <<histVars, gestureVars, cropVars, toolVars, miscVars>>

\* the setTimeout of createTextInput: attach one listener pair
AttachListeners ==
    /\ pendingAttach > 0
    /\ pendingAttach' = pendingAttach - 1
    /\ textListeners' = textListeners + 1
    /\ UNCHANGED <<isEditingText, textCursor, textBlinkTimer, liveIntervals, refVars,
                   histVars, gestureVars, cropVars, toolVars, miscVars>>

\* one tick of a caret interval: repaint only
BlinkTick ==
    /\ liveIntervals > 0
    /\ UNCHANGED vars

SetText(text, cursor, allSelected) ==
    /\ textCursor' = cursor
    /\ Commit([heap EXCEPT ![currentTextObj].text = text,
                           ![currentTextObj].isAllSelected = allSelected],
              drawingStack, selectedObject, hoveredObject, currentTextObj, currentBrushStroke)
    /\ UNCHANGED <<isEditingText, textBlinkTimer, liveIntervals, textListeners, pendingAttach>>

\* text.slice(from, to) with 0-based bounds clamped to the text
slice(text, from, to) ==
    LET lo == Max2(0, Min2(from, Len(text)))
        hi == Max2(lo, Min2(to, Len(text)))
    IN [j \in 1..(hi - lo) |-> text[lo + j]]

\* handleGlobalKeydown for one key, the event target being the document body
handleGlobalKeydown(key) ==
    /\ textListeners > 0
    /\ isEditingText
    /\ currentTextObj # NoRef
    /\ LET obj == heap[currentTextObj]
           all == obj.isAllSelected = "true"
       IN IF key = "Enter" \/ key = "Escape"
          THEN applyText(heap, drawingStack, currentBrushStroke)
          ELSE IF key = "Ctrl+A"
          THEN SetText(obj.text, Len(obj.text), "true")
          ELSE IF key = "Backspace"
          THEN IF all THEN SetText(<<>>, 0, "false")
               ELSE IF textCursor > 0
               THEN SetText(slice(obj.text, 0, textCursor - 1) \o slice(obj.text, textCursor, Len(obj.text)),
                            textCursor - 1, obj.isAllSelected)
               ELSE SetText(obj.text, textCursor, obj.isAllSelected)
          ELSE IF key = "Delete"
          THEN IF all THEN SetText(<<>>, 0, "false")
               ELSE IF textCursor < Len(obj.text)
               THEN SetText(slice(obj.text, 0, textCursor) \o slice(obj.text, textCursor + 1, Len(obj.text)),
                            textCursor, obj.isAllSelected)
               ELSE SetText(obj.text, textCursor, obj.isAllSelected)
          ELSE IF key = "ArrowLeft"
          THEN SetText(obj.text, IF textCursor > 0 THEN textCursor - 1 ELSE textCursor, "false")
          ELSE IF key = "ArrowRight"
          THEN SetText(obj.text, IF textCursor < Len(obj.text) THEN textCursor + 1 ELSE textCursor, "false")
          ELSE IF key = "Home"
          THEN SetText(obj.text, 0, "false")
          ELSE IF key = "End"
          THEN SetText(obj.text, Len(obj.text), "false")
          ELSE IF all
          THEN SetText(<<key>>, 1, "false")
          ELSE SetText(slice(obj.text, 0, textCursor) \o <<key>> \o slice(obj.text, textCursor, Len(obj.text)),
                       textCursor + 1, obj.isAllSelected)
    /\ UNCHANGED <<histVars, gestureVars, cropVars, toolVars, miscVars>>

(***************************************************************************)
(* Style and size inputs                                                   *)
(***************************************************************************)
SelectedText == selectedObject # NoRef /\ heap[selectedObject].type = "text"

\* fontSize input listener; value is the field's content in pixels or EmptyInput
FontSizeInput(value) ==
    /\ activeTool = "text"
    /\ textFormatting' = [textFormatting EXCEPT !.size = JsMul(parseInt(value), 4)]
    /\ IF SelectedText
       THEN Commit([heap EXCEPT ![selectedObject].size = JsMul(parseInt(value), 4),
                                ![selectedObject].originalSize = JsMul(parseInt(value), 4)],
                   drawingStack, selectedObject, hoveredObject, currentTextObj, currentBrushStroke)
       ELSE UNCHANGED refVars
    /\ UNCHANGED <<activeTool, currentShape, colorPicker, lineWidth, isShiftPressed,
                   histVars, gestureVars, cropVars, textVars, miscVars>>

\* boldBtn click listener (italicBtn and underlineBtn have the same body on their own field)
BoldClick ==
    /\ activeTool = "text"
    /\ textFormatting' = [textFormatting EXCEPT !.bold = IF @ = "true" THEN "false" ELSE "true"]
    /\ IF SelectedText
       THEN /\ Push
            /\ Commit([heap EXCEPT ![selectedObject].bold = textFormatting'.bold],
                      drawingStack, selectedObject, hoveredObject, currentTextObj, currentBrushStroke)
       ELSE UNCHANGED <<refVars, histVars>>
    /\ UNCHANGED <<activeTool, currentShape, colorPicker, lineWidth, isShiftPressed,
                   gestureVars, cropVars, textVars, miscVars>>

\* the input listener shared by colorPicker and lineWidth, after the control took its new value
InputChanged ==
    IF selectedObject # NoRef
    THEN /\ inputChangeTimeout' = TRUE
         /\ LET obj == heap[selectedObject]
                o1 == [obj EXCEPT !.color = colorPicker']
                o2 == IF obj.type = "text" THEN [o1 EXCEPT !.size = Px(lineWidth')]
                      ELSE [o1 EXCEPT !.lineWidth = Px(lineWidth')]
                o3 == IF obj.type = "numbers" THEN [o2 EXCEPT !.radius = Px(lineWidth')] ELSE o2
            IN Commit([heap EXCEPT ![selectedObject] = o3], drawingStack, selectedObject,
                      hoveredObject, currentTextObj, currentBrushStroke)
    ELSE UNCHANGED <<refVars, inputChangeTimeout>>

ColorInput(color) ==
    /\ activeTool \in toolsWithOptions
    /\ colorPicker' = color
    /\ lineWidth' = lineWidth
    /\ InputChanged
    /\ UNCHANGED <<activeTool, currentShape, textFormatting, isShiftPressed, histVars,
                   gestureVars, cropVars, textVars, currentImage, numberCounter>>

LineWidthInput(value) ==
    /\ activeTool \in toolsWithOptions \ {"text"}
    /\ lineWidth' = value
    /\ colorPicker' = colorPicker
    /\ InputChanged
    /\ UNCHANGED <<activeTool, currentShape, textFormatting, isShiftPressed, histVars,
                   gestureVars, cropVars, textVars, currentImage, numberCounter>>

\* the debounce timeout of the shared input listener, one second after the last input
InputChangeTimer ==
    /\ inputChangeTimeout
    /\ inputChangeTimeout' = FALSE
    /\ Push
    /\ UNCHANGED <<refVars, gestureVars, cropVars, toolVars, textVars, currentImage, numberCounter>>

(***************************************************************************)
(* Crop                                                                    *)
(***************************************************************************)
\* the crop rectangle applyCrop works with: normalised, then clamped to the image
CropBox ==
    LET x0 == IF cropRect[3] < 0 THEN cropRect[1] + cropRect[3] ELSE cropRect[1]
        y0 == IF cropRect[4] < 0 THEN cropRect[2] + cropRect[4] ELSE cropRect[2]
        x == Max2(0, Min2(x0, currentImage.width))
        y == Max2(0, Min2(y0, currentImage.height))
    IN <<x, y, Min2(Abs(cropRect[3]), currentImage.width - x),
         Min2(Abs(cropRect[4]), currentImage.height - y)>>

\* applyCrop, up to handing the cropped bitmap to the new Image
applyCrop ==
    /\ cropButtons
    /\ IF cropRect = <<>> \/ currentImage = NoImage
       THEN UNCHANGED <<cropVars, histVars>>
       ELSE IF CropBox[3] <= 0 \/ CropBox[4] <= 0
       THEN /\ cancelCrop
            /\ UNCHANGED histVars
       ELSE /\ Push
            /\ cropPending' = Append(cropPending, CropBox)
            /\ UNCHANGED <<isCropping, cropRect, cropButtons>>
    /\ UNCHANGED <<refVars, gestureVars, toolVars, textVars, miscVars>>

\* the Cancel button
CancelCropClick ==
    /\ cropButtons
    /\ cancelCrop
    /\ UNCHANGED <<refVars, histVars, gestureVars, toolVars, textVars, miscVars>>

\* the objects the crop keeps, moved by the crop origin
CropMoved(obj, box) ==
    [obj EXCEPT !.x = JsSub(obj.x, box[1]), !.y = JsSub(obj.y, box[2])]

CropKeeps(obj, box) ==
    /\ obj.type # "blur"
    /\ LET bounds == getObjectBounds(CropMoved(obj, box))
       IN /\ JsGt(JsAdd(bounds.x, bounds.width), 0)
          /\ JsLt(bounds.x, box[3])
          /\ JsGt(JsAdd(bounds.y, bounds.height), 0)
          /\ JsLt(bounds.y, box[4])

FilterStack(ds, keep(_)) ==
    LET F[i \in 0..Len(ds)] ==
            IF i = 0 THEN <<>>
            ELSE IF keep(ds[i]) THEN Append(F[i - 1], ds[i]) ELSE F[i - 1]
    IN F[Len(ds)]

\* newImg.onload of applyCrop
CropImgOnload ==
    /\ Len(cropPending) > 0
    /\ LET box == cropPending[1]
           inDoc == Range(drawingStack)
           keep(r) == CropKeeps(heap[r], box)
       IN /\ currentImage' = [width |-> box[3], height |-> box[4]]
          /\ Commit([r \in DOMAIN heap |->
                        IF r \in inDoc /\ heap[r].type # "blur" THEN CropMoved(heap[r], box) ELSE heap[r]],
                    FilterStack(drawingStack, keep), selectedObject, hoveredObject,
                    currentTextObj, currentBrushStroke)
    /\ cropPending' = Tail(cropPending)
    /\ isCropping' = FALSE
    /\ cropRect' = <<>>
    /\ cropButtons' = FALSE
    /\ UNCHANGED <<histVars, gestureVars, toolVars, textVars, numberCounter, inputChangeTimeout>>

(***************************************************************************)
(* Specification                                                           *)
(***************************************************************************)
MaxObjects == 2
MaxLabels == 1
MaxHistory == 2
MaxCropHistory == 5
MaxNumber == 3
MaxTextLen == 1
MaxPoints == 2
MaxTimers == 1
MaxCoord == 120
MaxTurns == 2

\* pointer positions, in quarter pixels
P1 == <<Px(40), Px(40)>>

P2 == <<Px(100), Px(100)>>

\* the image a file load brings
ImageSizes == {<<Px(160), Px(120)>>}

Init ==
    /\ currentImage = NoImage
    /\ activeTool = "select"
    /\ currentShape = "rect"
    /\ heap = <<>>
    /\ drawingStack = <<>>
    /\ undoStack = <<>>
    /\ redoStack = <<>>
    /\ numberCounter = 1
    /\ isDrawing = FALSE
    /\ isDragging = FALSE
    /\ selectedObject = NoRef
    /\ hoveredObject = NoRef
    /\ startX = JsUndefined
    /\ startY = JsUndefined
    /\ offsetX = JsUndefined
    /\ offsetY = JsUndefined
    /\ isCropping = FALSE
    /\ cropRect = <<>>
    /\ cropButtons = FALSE
    /\ cropPending = <<>>
    /\ currentEraserStroke = FALSE
    /\ currentBrushStroke = NoRef
    /\ isShiftPressed = FALSE
    /\ textFormatting = [size |-> Px(50), bold |-> "false"]
    /\ isEditingText = FALSE
    /\ currentTextObj = NoRef
    /\ textCursor = 0
    /\ textBlinkTimer = FALSE
    /\ liveIntervals = 0
    /\ textListeners = 0
    /\ pendingAttach = 0
    /\ resizeHandle = "none"
    /\ initialBounds = NoBounds
    /\ initialMousePos = <<>>
    /\ colorPicker = "#ff0000"
    /\ lineWidth = 10
    /\ inputChangeTimeout = FALSE

InWindow(v) == ~IsNum(v) \/ v = JsNull \/ (v >= 0 - Px(MaxCoord) /\ v <= Px(MaxCoord))

ObjectWithin(obj) ==
    /\ InWindow(obj.x) /\ InWindow(obj.y) /\ InWindow(obj.width) /\ InWindow(obj.height)
    /\ InWindow(obj.size)
    /\ Len(obj.text) <= MaxTextLen
    /\ Len(obj.points) <= MaxPoints
    /\ ~IsNum(obj.rotation) \/ Abs(ToNum(obj.rotation)) <= MaxTurns

\* the part of the state space that is explored: at most maxObjects objects in the
\* Document and maxHistory snapshots on the undo stack
Within(maxObjects, maxHistory) ==
    /\ Len(drawingStack) <= maxObjects
    /\ Len(undoStack) <= maxHistory
    /\ numberCounter <= MaxNumber + 1
    /\ liveIntervals <= MaxTimers
    /\ pendingAttach + textListeners <= MaxTimers
    /\ Len(cropPending) <= 1
    /\ \A i \in DOMAIN heap : ObjectWithin(heap[i])

\* labels and history: the text tool, typing, the font size field, undo and redo
Next ==
    \/ (\E s \in ImageSizes : handleImage(s[1], s[2])) /\ Within(MaxLabels, MaxHistory)'
    \/ ToolbarClick("text") /\ Within(MaxLabels, MaxHistory)'
    \/ KeyUndo /\ Within(MaxLabels, MaxHistory)'
    \/ KeyRedo /\ Within(MaxLabels, MaxHistory)'
    \/ KeyDelete /\ Within(MaxLabels, MaxHistory + 1)'
    \/ KeyEscape /\ Within(MaxLabels, MaxHistory)'
    \/ MouseDown(P1[1], P1[2]) /\ Within(MaxLabels, MaxHistory)'
    \/ MouseMove(P1[1], P1[2]) /\ Within(MaxLabels, MaxHistory)'
    \/ MouseUp(P1[1], P1[2]) /\ Within(MaxLabels, MaxHistory)'
    \/ AttachListeners /\ Within(MaxLabels, MaxHistory)'
    \/ (\E k \in {"a", "Enter"} : handleGlobalKeydown(k)) /\ Within(MaxLabels, MaxHistory)'
    \/ FontSizeInput(EmptyInput) /\ Within(MaxLabels, MaxHistory)'

Spec == Init /\ [][Next]_vars

\* markers: the numbers tool, the eraser, undo and redo
NextNumbers ==
    \/ (\E s \in ImageSizes : handleImage(s[1], s[2])) /\ Within(MaxNumber, MaxNumber)'
    \/ (\E t \in {"numbers", "eraser"} : ToolbarClick(t)) /\ Within(MaxNumber, MaxNumber)'
    \/ KeyUndo /\ Within(MaxNumber, MaxNumber)'
    \/ KeyRedo /\ Within(MaxNumber, MaxNumber)'
    \/ MouseDown(P1[1], P1[2]) /\ Within(MaxNumber, MaxNumber)'
    \/ MouseMove(P1[1], P1[2]) /\ Within(MaxNumber, MaxNumber)'
    \/ MouseUp(P1[1], P1[2]) /\ Within(MaxNumber, MaxNumber)'

SpecNumbers == Init /\ [][NextNumbers]_vars

\* transforms: the select tool on a marker, Delete and Escape
NextDrag ==
    \/ (\E s \in ImageSizes : handleImage(s[1], s[2])) /\ Within(MaxLabels, MaxHistory)'
    \/ (\E t \in {"numbers", "select"} : ToolbarClick(t)) /\ Within(MaxLabels, MaxHistory)'
    \/ KeyDelete /\ Within(MaxLabels, MaxHistory + 1)'
    \/ KeyEscape /\ Within(MaxLabels, MaxHistory)'
    \/ (\E p \in {P1, P2} : MouseDown(p[1], p[2])) /\ Within(MaxLabels, MaxHistory)'
    \/ (\E p \in {P1, P2} : MouseMove(p[1], p[2])) /\ Within(MaxLabels, MaxHistory)'
    \/ (\E p \in {P1, P2} : MouseUp(p[1], p[2])) /\ Within(MaxLabels, MaxHistory)'

SpecDrag == Init /\ [][NextDrag]_vars

\* crop: a marker under a blur, the crop tool with its buttons and its image load,
\* the select tool and Delete.  The run starts where the user has loaded the image,
\* clicked marker 1 at P1 with the numbers tool, dragged a blur from P1 to P2 and
\* chosen the crop tool.
MarkerAtP1 ==
    [Blank EXCEPT !.type = "numbers", !.color = "#ff0000", !.rotation = 0, !.x = P1[1],
                  !.y = P1[2], !.number = 1, !.radius = Px(20)]

BlurP1P2 ==
    [Blank EXCEPT !.type = "blur", !.color = "#ff0000", !.rotation = 0, !.x = P1[1],
                  !.y = P1[2], !.width = P2[1] - P1[1], !.height = P2[2] - P1[2],
                  !.lineWidth = Px(69), !.originalWidth = P2[1] - P1[1],
                  !.originalHeight = P2[2] - P1[2]]

InitCrop ==
    /\ currentImage = [width |-> Px(160), height |-> Px(120)]
    /\ activeTool = "crop"
    /\ currentShape = "rect"
    /\ heap = <<MarkerAtP1, BlurP1P2>>
    /\ drawingStack = <<1, 2>>
    /\ undoStack = <<<<>>, <<MarkerAtP1>>>>
    /\ redoStack = <<>>
    /\ numberCounter = 2
    /\ isDrawing = FALSE
    /\ isDragging = FALSE
    /\ selectedObject = NoRef
    /\ hoveredObject = NoRef
    /\ startX = P1[1]
    /\ startY = P1[2]
    /\ offsetX = JsUndefined
    /\ offsetY = JsUndefined
    /\ isCropping = FALSE
    /\ cropRect = <<>>
    /\ cropButtons = FALSE
    /\ cropPending = <<>>
    /\ currentEraserStroke = FALSE
    /\ currentBrushStroke = NoRef
    /\ isShiftPressed = FALSE
    /\ textFormatting = [size |-> Px(50), bold |-> "false"]
    /\ isEditingText = FALSE
    /\ currentTextObj = NoRef
    /\ textCursor = 0
    /\ textBlinkTimer = FALSE
    /\ liveIntervals = 0
    /\ textListeners = 0
    /\ pendingAttach = 0
    /\ resizeHandle = "none"
    /\ initialBounds = NoBounds
    /\ initialMousePos = <<>>
    /\ colorPicker = "#ff0000"
    /\ lineWidth = 10
    /\ inputChangeTimeout = FALSE

NextCrop ==
    \/ (\E t \in {"crop", "select"} : ToolbarClick(t)) /\ Within(MaxObjects, MaxCropHistory)'
    \/ KeyDelete /\ Within(MaxObjects, MaxCropHistory)'
    \/ (\E p \in {P1, P2} : MouseDown(p[1], p[2])) /\ Within(MaxObjects, MaxCropHistory)'
    \/ (\E p \in {P1, P2} : MouseMove(p[1], p[2])) /\ Within(MaxObjects, MaxCropHistory)'
    \/ (\E p \in {P1, P2} : MouseUp(p[1], p[2])) /\ Within(MaxObjects, MaxCropHistory)'
    \/ applyCrop /\ Within(MaxObjects, MaxCropHistory)'
    \/ CancelCropClick /\ Within(MaxObjects, MaxCropHistory)'
    \/ CropImgOnload /\ Within(MaxObjects, MaxCropHistory)'

SpecCrop == InitCrop /\ [][NextCrop]_vars

\* creation: every drawing tool, drags in every direction
P3 == <<Px(100), Px(40)>>

P4 == <<Px(40), Px(100)>>

NextCreate ==
    \/ (\E s \in ImageSizes : handleImage(s[1], s[2])) /\ Within(MaxLabels, MaxLabels)'
    \/ (\E t \in {"arrow", "blur"} : ToolbarClick(t)) /\ Within(MaxLabels, MaxLabels)'
    \/ (\E sh \in {"rect", "circle", "check", "cross"} : ShapeMenuClick(sh))
       /\ Within(MaxLabels, MaxLabels)'
    \/ (\E p \in {P1, P2, P3, P4} : MouseDown(p[1], p[2])) /\ Within(MaxLabels, MaxLabels)'
    \/ (\E p \in {P1, P2, P3, P4} : MouseUp(p[1], p[2])) /\ Within(MaxLabels, MaxLabels)'

SpecCreate == Init /\ [][NextCreate]_vars

\* style: the font size field and the bold button on a selected label.  The run
\* starts where the user has loaded the image, chosen the text tool, clicked at P1,
\* typed "a" and pressed Enter.
LabelAtP1 ==
    [Blank EXCEPT !.type = "text", !.x = P1[1], !.y = P1[2], !.text = <<"a">>,
                  !.color = "#ff0000", !.size = Px(50), !.bold = "false", !.rotation = 0,
                  !.originalSize = Px(50)]

InitStyle ==
    /\ currentImage = [width |-> Px(160), height |-> Px(120)]
    /\ activeTool = "text"
    /\ currentShape = "rect"
    /\ heap = <<LabelAtP1>>
    /\ drawingStack = <<1>>
    /\ undoStack = <<<<>>>>
    /\ redoStack = <<>>
    /\ numberCounter = 1
    /\ isDrawing = FALSE
    /\ isDragging = FALSE
    /\ selectedObject = NoRef
    /\ hoveredObject = NoRef
    /\ startX = P1[1]
    /\ startY = P1[2]
    /\ offsetX = JsUndefined
    /\ offsetY = JsUndefined
    /\ isCropping = FALSE
    /\ cropRect = <<>>
    /\ cropButtons = FALSE
    /\ cropPending = <<>>
    /\ currentEraserStroke = FALSE
    /\ currentBrushStroke = NoRef
    /\ isShiftPressed = FALSE
    /\ textFormatting = [size |-> Px(50), bold |-> "false"]
    /\ isEditingText = FALSE
    /\ currentTextObj = NoRef
    /\ textCursor = 0
    /\ textBlinkTimer = FALSE
    /\ liveIntervals = 0
    /\ textListeners = 0
    /\ pendingAttach = 0
    /\ resizeHandle = "none"
    /\ initialBounds = NoBounds
    /\ initialMousePos = <<>>
    /\ colorPicker = "#ff0000"
    /\ lineWidth = 50
    /\ inputChangeTimeout = FALSE

NextStyle ==
    \/ KeyUndo /\ Within(MaxLabels, MaxHistory + 1)'
    \/ KeyRedo /\ Within(MaxLabels, MaxHistory + 1)'
    \/ KeyEscape /\ Within(MaxLabels, MaxHistory + 1)'
    \/ MouseDown(P1[1], P1[2]) /\ Within(MaxLabels, MaxHistory + 1)'
    \/ MouseUp(P1[1], P1[2]) /\ Within(MaxLabels, MaxHistory + 1)'
    \/ (\E v \in {20, 30} : FontSizeInput(v)) /\ Within(MaxLabels, MaxHistory + 1)'
    \/ BoldClick /\ Within(MaxLabels, MaxHistory + 1)'

SpecStyle == InitStyle /\ [][NextStyle]_vars

\* shapes drawn with and without the shift key, over drags that are wider than
\* high, higher than wide, and along one axis
P5 == <<Px(80), Px(100)>>

NextShift ==
    \/ (\E s \in ImageSizes : handleImage(s[1], s[2])) /\ Within(MaxLabels, MaxLabels)'
    \/ (\E sh \in {"rect", "circle", "check", "cross"} : ShapeMenuClick(sh))
       /\ Within(MaxLabels, MaxLabels)'
    \/ (\E down \in BOOLEAN : KeyShift(down)) /\ Within(MaxLabels, MaxLabels)'
    \/ (\E p \in {P1, P3, P5} : MouseDown(p[1], p[2])) /\ Within(MaxLabels, MaxLabels)'
    \/ (\E p \in {P1, P3, P5} : MouseUp(p[1], p[2])) /\ Within(MaxLabels, MaxLabels)'

SpecShift == Init /\ [][NextShift]_vars

\* erasing: markers are put down and the eraser is clicked and dragged over them
NextErase ==
    \/ (\E s \in ImageSizes : handleImage(s[1], s[2])) /\ Within(MaxObjects, MaxHistory + 1)'
    \/ (\E t \in {"numbers", "eraser"} : ToolbarClick(t)) /\ Within(MaxObjects, MaxHistory + 1)'
    \/ (\E p \in {P1, P2} : MouseDown(p[1], p[2])) /\ Within(MaxObjects, MaxHistory + 1)'
    \/ (\E p \in {P1, P2} : MouseMove(p[1], p[2])) /\ Within(MaxObjects, MaxHistory + 1)'
    \/ (\E p \in {P1, P2} : MouseUp(p[1], p[2])) /\ Within(MaxObjects, MaxHistory + 1)'

SpecErase == Init /\ [][NextErase]_vars

\* hit testing: brush strokes, arrows and blur regions drawn over one another
NextHit ==
    \/ (\E s \in ImageSizes : handleImage(s[1], s[2])) /\ Within(MaxObjects, MaxHistory)'
    \/ (\E t \in {"brush", "arrow", "blur"} : ToolbarClick(t)) /\ Within(MaxObjects, MaxHistory)'
    \/ (\E p \in {P1, P2} : MouseDown(p[1], p[2])) /\ Within(MaxObjects, MaxHistory)'
    \/ (\E p \in {P1, P2} : MouseMove(p[1], p[2])) /\ Within(MaxObjects, MaxHistory)'
    \/ (\E p \in {P1, P2} : MouseUp(p[1], p[2])) /\ Within(MaxObjects, MaxHistory)'

SpecHit == Init /\ [][NextHit]_vars

\* bounds: one object of each kind, drawn wider than high or higher than wide
NextBounds ==
    \/ (\E s \in ImageSizes : handleImage(s[1], s[2])) /\ Within(MaxLabels, MaxLabels)'
    \/ (\E t \in {"numbers", "arrow", "brush", "text"} : ToolbarClick(t))
       /\ Within(MaxLabels, MaxLabels)'
    \/ (\E sh \in {"rect", "circle"} : ShapeMenuClick(sh)) /\ Within(MaxLabels, MaxLabels)'
    \/ (\E p \in {P1, P5} : MouseDown(p[1], p[2])) /\ Within(MaxLabels, MaxLabels)'
    \/ (\E p \in {P1, P5} : MouseUp(p[1], p[2])) /\ Within(MaxLabels, MaxLabels)'
    \/ AttachListeners /\ Within(MaxLabels, MaxLabels)'
    \/ (\E k \in {"a", "Enter"} : handleGlobalKeydown(k)) /\ Within(MaxLabels, MaxLabels)'

SpecBounds == Init /\ [][NextBounds]_vars

\* resizing and rotating with the select tool.  The run starts where the user has
\* loaded the image, drawn one object and chosen the select tool: a rectangle
\* dragged from P1 to P2, or the label "a" typed at P1.
RectAtP1 ==
    [Blank EXCEPT !.type = "rect", !.x = P1[1], !.y = P1[2], !.width = Px(60),
                  !.height = Px(60), !.color = "#ff0000", !.rotation = 0,
                  !.lineWidth = Px(5), !.originalWidth = Px(60), !.originalHeight = Px(60)]

InitSelect(obj) ==
    /\ currentImage = [width |-> Px(160), height |-> Px(120)]
    /\ activeTool = "select"
    /\ currentShape = "rect"
    /\ heap = <<obj>>
    /\ drawingStack = <<1>>
    /\ undoStack = <<<<>>>>
    /\ redoStack = <<>>
    /\ numberCounter = 1
    /\ isDrawing = FALSE
    /\ isDragging = FALSE
    /\ selectedObject = NoRef
    /\ hoveredObject = NoRef
    /\ startX = P1[1]
    /\ startY = P1[2]
    /\ offsetX = JsUndefined
    /\ offsetY = JsUndefined
    /\ isCropping = FALSE
    /\ cropRect = <<>>
    /\ cropButtons = FALSE
    /\ cropPending = <<>>
    /\ currentEraserStroke = FALSE
    /\ currentBrushStroke = NoRef
    /\ isShiftPressed = FALSE
    /\ textFormatting = [size |-> Px(50), bold |-> "false"]
    /\ isEditingText = FALSE
    /\ currentTextObj = NoRef
    /\ textCursor = 0
    /\ textBlinkTimer = FALSE
    /\ liveIntervals = 0
    /\ textListeners = 0
    /\ pendingAttach = 0
    /\ resizeHandle = "none"
    /\ initialBounds = NoBounds
    /\ initialMousePos = <<>>
    /\ colorPicker = "#ff0000"
    /\ lineWidth = 10
    /\ inputChangeTimeout = FALSE

NextSelect(points, maxHistory) ==
    \/ KeyEscape /\ Within(MaxLabels, maxHistory)'
    \/ (\E p \in points : MouseDown(p[1], p[2])) /\ Within(MaxLabels, maxHistory)'
    \/ (\E p \in points : MouseMove(p[1], p[2])) /\ Within(MaxLabels, maxHistory)'
    \/ (\E p \in points : MouseUp(p[1], p[2])) /\ Within(MaxLabels, maxHistory)'

\* the pointer visits the corners of the rectangle and two points its lower
\* right corner is dragged to
SpecResize ==
    InitSelect(RectAtP1) /\ [][NextSelect({P1, P2, P3, P4, P5, <<Px(20), Px(100)>>}, MaxHistory + 1)]_vars

\* the pointer visits the rotate handle of the rectangle and the points right
\* of, below and left of its centre; a click selects the rectangle and two drags
\* rotate it, each with its own snapshot
SpecRotate ==
    /\ InitSelect(RectAtP1)
    /\ [][NextSelect({<<Px(70), Px(70)>>, <<Px(70), Px(20)>>, <<Px(120), Px(70)>>,
                      <<Px(70), Px(120)>>, <<Px(20), Px(70)>>},
                     MaxHistory + 2)]_vars

\* the pointer visits the upper left and lower right handles of the 25px by 50px
\* label, and the points its lower right handle is dragged to
LabelPoints ==
    {P1, <<Px(64), Px(90)>>, <<Px(64), Px(65)>>, <<Px(64), Px(115)>>,
     <<Px(76), Px(115)>>, <<Px(76), Px(45)>>}

SpecLabel == InitSelect(LabelAtP1) /\ [][NextSelect(LabelPoints, MaxHistory + 1)]_vars

\* text editing.  The run starts where the user has loaded the image, drawn a
\* rectangle from (100,40) to (140,100), chosen the text tool, clicked at P1,
\* typed "a" and pressed Enter: a rectangle and, left of it, the label "a".
RectRight ==
    [RectAtP1 EXCEPT !.x = Px(100), !.width = Px(40), !.originalWidth = Px(40)]

InitEdit ==
    /\ currentImage = [width |-> Px(160), height |-> Px(120)]
    /\ activeTool = "text"
    /\ currentShape = "rect"
    /\ heap = <<RectRight, LabelAtP1>>
    /\ drawingStack = <<1, 2>>
    /\ undoStack = <<<<>>, <<JsonObject(RectRight)>>>>
    /\ redoStack = <<>>
    /\ numberCounter = 1
    /\ isDrawing = FALSE
    /\ isDragging = FALSE
    /\ selectedObject = NoRef
    /\ hoveredObject = NoRef
    /\ startX = P1[1]
    /\ startY = P1[2]
    /\ offsetX = JsUndefined
    /\ offsetY = JsUndefined
    /\ isCropping = FALSE
    /\ cropRect = <<>>
    /\ cropButtons = FALSE
    /\ cropPending = <<>>
    /\ currentEraserStroke = FALSE
    /\ currentBrushStroke = NoRef
    /\ isShiftPressed = FALSE
    /\ textFormatting = [size |-> Px(50), bold |-> "false"]
    /\ isEditingText = FALSE
    /\ currentTextObj = NoRef
    /\ textCursor = 0
    /\ textBlinkTimer = FALSE
    /\ liveIntervals = 0
    /\ textListeners = 0
    /\ pendingAttach = 0
    /\ resizeHandle = "none"
    /\ initialBounds = NoBounds
    /\ initialMousePos = <<>>
    /\ colorPicker = "#ff0000"
    /\ lineWidth = 50
    /\ inputChangeTimeout = FALSE

\* the explored part of an editing run: at most maxObjects objects, maxHistory
\* snapshots, maxLen characters in a label and maxTimers intervals and listener pairs
WithinEdit(maxObjects, maxHistory, maxLen, maxTimers) ==
    /\ Len(drawingStack) <= maxObjects
    /\ Len(undoStack) <= maxHistory
    /\ liveIntervals <= maxTimers
    /\ pendingAttach + textListeners <= maxTimers
    /\ \A i \in DOMAIN heap :
          /\ InWindow(heap[i].x) /\ InWindow(heap[i].y) /\ InWindow(heap[i].size)
          /\ Len(heap[i].text) <= maxLen

\* clicks and double-clicks at points, the keys of keys, the listeners'
\* timeout and the caret interval
NextEdit(points, keys, maxObjects, maxHistory, maxTimers) ==
    \/ (\E p \in points : MouseDown(p[1], p[2]))
       /\ WithinEdit(maxObjects, maxHistory, MaxTextLen, maxTimers)'
    \/ (\E p \in points : MouseUp(p[1], p[2]))
       /\ WithinEdit(maxObjects, maxHistory, MaxTextLen, maxTimers)'
    \/ (\E p \in points : DblClick(p[1], p[2]))
       /\ WithinEdit(maxObjects, maxHistory, MaxTextLen, maxTimers)'
    \/ AttachListeners /\ WithinEdit(maxObjects, maxHistory, MaxTextLen, maxTimers)'
    \/ BlinkTick /\ WithinEdit(maxObjects, maxHistory, MaxTextLen, maxTimers)'
    \/ (\E k \in keys : handleGlobalKeydown(k))
       /\ WithinEdit(maxObjects, maxHistory, MaxTextLen, maxTimers)'

\* the label alone: a point inside it and a free point
SpecEdit ==
    /\ InitStyle
    /\ [][NextEdit({<<Px(50), Px(60)>>, P5},
                   {"a", " ", "Ctrl+A", "Backspace", "Enter", "Escape"},
                   MaxObjects, MaxHistory + 1, MaxTimers)]_vars

\* the label alone, with room for a second caret interval and listener pair
SpecBlink ==
    /\ InitStyle
    /\ [][NextEdit({<<Px(50), Px(60)>>}, {"a", "Ctrl+A", "Backspace", "Enter", "Escape"},
                   MaxObjects, MaxHistory + 1, MaxTimers + 1)]_vars

\* the timers: the label is selected or edited, the colour is changed, the
\* debounce timeout, the listeners' timeout and the caret interval fire, and the
\* user undoes and redoes
NextTimer ==
    \/ MouseDown(Px(50), Px(60)) /\ WithinEdit(MaxLabels, MaxHistory + 1, MaxTextLen, MaxTimers)'
    \/ MouseUp(Px(50), Px(60)) /\ WithinEdit(MaxLabels, MaxHistory + 1, MaxTextLen, MaxTimers)'
    \/ DblClick(Px(50), Px(60)) /\ WithinEdit(MaxLabels, MaxHistory + 1, MaxTextLen, MaxTimers)'
    \/ (\E c \in {"#ff0000", "#00ff00"} : ColorInput(c))
       /\ WithinEdit(MaxLabels, MaxHistory + 1, MaxTextLen, MaxTimers)'
    \/ InputChangeTimer /\ WithinEdit(MaxLabels, MaxHistory + 1, MaxTextLen, MaxTimers)'
    \/ AttachListeners /\ WithinEdit(MaxLabels, MaxHistory + 1, MaxTextLen, MaxTimers)'
    \/ BlinkTick /\ WithinEdit(MaxLabels, MaxHistory + 1, MaxTextLen, MaxTimers)'
    \/ handleGlobalKeydown("Enter") /\ WithinEdit(MaxLabels, MaxHistory + 1, MaxTextLen, MaxTimers)'
    \/ KeyUndo /\ WithinEdit(MaxLabels, MaxHistory + 1, MaxTextLen, MaxTimers)'
    \/ KeyRedo /\ WithinEdit(MaxLabels, MaxHistory + 1, MaxTextLen, MaxTimers)'

SpecTimer == InitStyle /\ [][NextTimer]_vars

\* the rectangle and the label: a point inside each and a free point
SpecTextTool ==
    /\ InitEdit
    /\ [][NextEdit({<<Px(50), Px(60)>>, <<Px(120), Px(70)>>, P5}, {"a", "Enter"},
                   MaxObjects + 1, MaxHistory + 1, MaxTimers)]_vars

\* cursor: the run starts where the user of InitStyle has clicked the label with
\* the text tool, dragged its rotate handle a quarter turn and released
MaxEditLen == 2

LabelTurned == [LabelAtP1 EXCEPT !.rotation = 1]

InitTurned ==
    /\ currentImage = [width |-> Px(160), height |-> Px(120)]
    /\ activeTool = "text"
    /\ currentShape = "rect"
    /\ heap = <<LabelTurned>>
    /\ drawingStack = <<1>>
    /\ undoStack = <<<<>>, <<JsonObject(LabelAtP1)>>, <<JsonObject(LabelAtP1)>>>>
    /\ redoStack = <<>>
    /\ numberCounter = 1
    /\ isDrawing = FALSE
    /\ isDragging = FALSE
    /\ selectedObject = 1
    /\ hoveredObject = NoRef
    /\ startX = Px(52) + 2
    /\ startY = Px(20)
    /\ offsetX = Px(20)
    /\ offsetY = Px(25)
    /\ isCropping = FALSE
    /\ cropRect = <<>>
    /\ cropButtons = FALSE
    /\ cropPending = <<>>
    /\ currentEraserStroke = FALSE
    /\ currentBrushStroke = NoRef
    /\ isShiftPressed = FALSE
    /\ textFormatting = [size |-> Px(50), bold |-> "false"]
    /\ isEditingText = FALSE
    /\ currentTextObj = NoRef
    /\ textCursor = 0
    /\ textBlinkTimer = FALSE
    /\ liveIntervals = 0
    /\ textListeners = 0
    /\ pendingAttach = 0
    /\ resizeHandle = "none"
    /\ initialBounds = NoBounds
    /\ initialMousePos = <<>>
    /\ colorPicker = "#ff0000"
    /\ lineWidth = 50
    /\ inputChangeTimeout = FALSE

\* a point inside the label, and a point right of its text that the box of the
\* turned label contains
CursorPoints == {<<Px(60), Px(65)>>, <<Px(70), Px(65)>>}

CursorKeys ==
    {"a", "Ctrl+A", "Backspace", "Delete", "ArrowLeft", "ArrowRight", "Home", "End", "Enter"}

NextCursor ==
    \/ (\E p \in CursorPoints : MouseDown(p[1], p[2]))
         /\ WithinEdit(MaxLabels, MaxHistory + 1, MaxEditLen, MaxTimers)'
    \/ (\E p \in CursorPoints : MouseUp(p[1], p[2]))
         /\ WithinEdit(MaxLabels, MaxHistory + 1, MaxEditLen, MaxTimers)'
    \/ (\E p \in CursorPoints : DblClick(p[1], p[2]))
         /\ WithinEdit(MaxLabels, MaxHistory + 1, MaxEditLen, MaxTimers)'
    \/ AttachListeners /\ WithinEdit(MaxLabels, MaxHistory + 1, MaxEditLen, MaxTimers)'
    \/ (\E k \in CursorKeys : handleGlobalKeydown(k))
         /\ WithinEdit(MaxLabels, MaxHistory + 1, MaxEditLen, MaxTimers)'

SpecCursor == InitTurned /\ [][NextCursor]_vars

\* arrow: the run starts where the user has loaded the image, drawn an arrow from
\* P1 up and left to (20,20) and chosen the select tool
ArrowBack ==
    [Blank EXCEPT !.type = "arrow", !.x = P1[1], !.y = P1[2], !.width = 0 - Px(20),
                  !.height = 0 - Px(20), !.color = "#ff0000", !.rotation = 0,
                  !.lineWidth = Px(10), !.originalWidth = Px(20), !.originalHeight = Px(20)]

ArrowPoints == {P1, <<Px(20), Px(20)>>, <<Px(30), Px(30)>>}

SpecArrow == InitSelect(ArrowBack) /\ [][NextSelect(ArrowPoints, MaxHistory + 1)]_vars

\* eraser: the run starts where the user has loaded the image, placed markers 1
\* and 2 on one another at P1 and chosen the eraser
MarkerTwoAtP1 == [MarkerAtP1 EXCEPT !.number = 2]

InitEraser ==
    /\ currentImage = [width |-> Px(160), height |-> Px(120)]
    /\ activeTool = "eraser"
    /\ currentShape = "rect"
    /\ heap = <<MarkerAtP1, MarkerTwoAtP1>>
    /\ drawingStack = <<1, 2>>
    /\ undoStack = <<<<>>, <<JsonObject(MarkerAtP1)>>>>
    /\ redoStack = <<>>
    /\ numberCounter = 3
    /\ isDrawing = FALSE
    /\ isDragging = FALSE
    /\ selectedObject = NoRef
    /\ hoveredObject = NoRef
    /\ startX = P1[1]
    /\ startY = P1[2]
    /\ offsetX = JsUndefined
    /\ offsetY = JsUndefined
    /\ isCropping = FALSE
    /\ cropRect = <<>>
    /\ cropButtons = FALSE
    /\ cropPending = <<>>
    /\ currentEraserStroke = FALSE
    /\ currentBrushStroke = NoRef
    /\ isShiftPressed = FALSE
    /\ textFormatting = [size |-> Px(50), bold |-> "false"]
    /\ isEditingText = FALSE
    /\ currentTextObj = NoRef
    /\ textCursor = 0
    /\ textBlinkTimer = FALSE
    /\ liveIntervals = 0
    /\ textListeners = 0
    /\ pendingAttach = 0
    /\ resizeHandle = "none"
    /\ initialBounds = NoBounds
    /\ initialMousePos = <<>>
    /\ colorPicker = "#ff0000"
    /\ lineWidth = 10
    /\ inputChangeTimeout = FALSE

NextEraser ==
    \/ KeyUndo /\ Within(MaxObjects, MaxHistory + 2)'
    \/ KeyRedo /\ Within(MaxObjects, MaxHistory + 2)'
    \/ (\E p \in {P1, P2} : MouseDown(p[1], p[2])) /\ Within(MaxObjects, MaxHistory + 2)'
    \/ (\E p \in {P1, P2} : MouseMove(p[1], p[2])) /\ Within(MaxObjects, MaxHistory + 2)'
    \/ (\E p \in {P1, P2} : MouseUp(p[1], p[2])) /\ Within(MaxObjects, MaxHistory + 2)'

SpecEraser == InitEraser /\ [][NextEraser]_vars

(***************************************************************************)
(* History claims                                                          *)
(***************************************************************************)
\* C1: every step that changes the Document, other than undo, redo and the load of
\* a new image (which starts a new history), leaves the redo stack empty and, on top of the undo stack, a snapshot of the
\* Document as it was before the step; inside a pointer gesture or a text editing
\* session the snapshot taken at its start is the one that has to be there
C1_SnapshotBeforeChange ==
    [][(DocValue' # DocValue /\ ~(undo \/ redo)
        /\ ~(\E s \in ImageSizes : handleImage(s[1], s[2]))) =>
          /\ undoStack' # <<>>
          /\ redoStack' = <<>>
          /\ \/ isDrawing
             \/ isEditingText
             \/ undoStack'[Len(undoStack')] = JsonStringify(DocValue)]_vars

\* C2: in every state with a snapshot on the undo stack, undo followed at once by
\* redo gives back the same Document and the same two stacks, and in every state
\* with a snapshot on the redo stack so does redo followed at once by undo
C2_UndoRedoRoundTrip ==
    /\ Len(undoStack) > 0 => redoOf(undoOf(HistoryState)) = HistoryState
    /\ Len(redoStack) > 0 => undoOf(redoOf(HistoryState)) = HistoryState

\* C3: undo on an empty undo stack and redo on an empty redo stack change nothing:
\* not the Document, not the selection, not a stack, not any other variable
C3_EmptyStackNoOp ==
    /\ [](Len(undoStack) = 0 => undoOf(HistoryState) = HistoryState)
    /\ [](Len(redoStack) = 0 => redoOf(HistoryState) = HistoryState)
    /\ [][((Len(undoStack) = 0 /\ undo) \/ (Len(redoStack) = 0 /\ redo)) => UNCHANGED vars]_vars

\* undo has emptied the undo stack, so one more Ctrl+Z meets the empty stack
C3_Witness == Len(undoStack) = 0 /\ Len(redoStack) > 0 /\ Len(drawingStack) = 0

\* C4: every undo or redo that finds a snapshot leaves the selection none
C4_HistoryClearsSelection ==
    [][((Len(undoStack) > 0 /\ undo) \/ (Len(redoStack) > 0 /\ redo)) =>
          selectedObject' = NoRef]_vars

\* undo ran inside a transform gesture, which had selected its object: the redo
\* stack, emptied by the gesture's snapshot, holds a snapshot again
C4_Witness ==
    /\ isDrawing /\ resizeHandle # "none" /\ initialBounds # NoBounds
    /\ Len(redoStack) > 0
    /\ selectedObject = NoRef

\* C6: the hover reference is none or an object of the Document
C6_HoverInDocument == hoveredObject = NoRef \/ hoveredObject \in Range(drawingStack)

(***************************************************************************)
(* Selection, Delete, Escape                                               *)
(***************************************************************************)
\* C5: the selection is none or an object of the Document
C5_SelectionInDocument == selectedObject = NoRef \/ selectedObject \in Range(drawingStack)

\* the Document value without the object r
DocWithout(r) ==
    LET rest == SelectSeq(drawingStack, LAMBDA i : i # r)
    IN [i \in 1..Len(rest) |-> heap[rest[i]]]

\* C7: Delete with an object selected removes that object and nothing else, the
\* other objects keep their order, and the selection becomes none; Delete with
\* nothing selected changes neither the Document nor the history stacks
C7_DeleteRemovesSelected ==
    [][KeyDelete =>
          IF selectedObject # NoRef
          THEN DocValue' = DocWithout(selectedObject) /\ selectedObject' = NoRef
          ELSE DocValue' = DocValue /\ UNCHANGED histVars]_vars

\* position, size and rotation of an object
Placement(obj) == <<obj.x, obj.y, obj.width, obj.height, obj.radius, obj.size, obj.rotation>>

\* a move, resize or rotate drag is in progress on the selected object, and the
\* snapshot taken at pointer-down is on top of the undo stack
TransformInProgress ==
    /\ isDrawing
    /\ selectedObject \in Range(drawingStack)
    /\ isDragging \/ (resizeHandle # "none" /\ initialBounds # NoBounds)
    /\ Len(undoStack) > 0
    /\ Len(undoStack[Len(undoStack)]) = Len(drawingStack)

\* C8: Escape during a move, resize or rotate drag puts the dragged object back
\* where the pointer-down snapshot has it
C8_EscapeRestoresBaseline ==
    [][(KeyEscape /\ TransformInProgress) =>
          Placement(DocValue'[PositionIn(drawingStack, selectedObject)])
          = Placement(undoStack[Len(undoStack)][PositionIn(drawingStack, selectedObject)])]_vars

(***************************************************************************)
(* Markers                                                                 *)
(***************************************************************************)
Markers == {i \in 1..Len(drawingStack) : heap[drawingStack[i]].type = "numbers"}

\* C9: the counter never goes down while the image stays, every marker added to the
\* Document takes the counter's value and moves the counter up, and no two markers
\* of the Document carry the same number
C9_MarkerNumbersUnique ==
    /\ [](\A i, j \in Markers :
            i # j => heap[drawingStack[i]].number # heap[drawingStack[j]].number)
    /\ [](\A i \in Markers : heap[drawingStack[i]].number < numberCounter)
    /\ [][\/ \E s \in ImageSizes : handleImage(s[1], s[2])
          \/ /\ numberCounter' >= numberCounter
             /\ (Len(drawingStack') = Len(drawingStack) + 1
                 /\ heap'[drawingStack'[Len(drawingStack')]].type = "numbers"
                 /\ ~(undo \/ redo))
                => /\ heap'[drawingStack'[Len(drawingStack')]].number = numberCounter
                   /\ numberCounter' = numberCounter + 1]_vars

\* markers 1 and 3 are in the Document and marker 2, undone or erased, is not
C9_Witness ==
    /\ Len(drawingStack) = 2
    /\ heap[drawingStack[1]].type = "numbers" /\ heap[drawingStack[1]].number = 1
    /\ heap[drawingStack[2]].type = "numbers" /\ heap[drawingStack[2]].number = 3

(***************************************************************************)
(* Object creation                                                         *)
(***************************************************************************)
\* the object createObject(x1, y1, x2, y2) has to return: the upper left corner
\* and the absolute extent for the box-like kinds, the first corner and the
\* signed deltas for an arrow
NormalisedFrom(obj, x1, y1, x2, y2) ==
    IF obj.type = "arrow"
    THEN /\ obj.x = x1 /\ obj.y = y1
         /\ obj.width = x2 - x1 /\ obj.height = y2 - y1
    ELSE /\ obj.x = Min2(x1, x2) /\ obj.y = Min2(y1, y2)
         /\ obj.width = Abs(x2 - x1) /\ obj.height = Abs(y2 - y1)
         /\ obj.width >= 0 /\ obj.height >= 0

\* C10: every rectangle, circle, check, cross, blur region and arrow the mouseup
\* listener appends to the Document is the normalised object of the corner pair
\* handed to createObject: non-negative extent anchored at the upper left corner,
\* and for an arrow the first corner with the signed deltas
C10_CreateObjectNormalises ==
    [][\A p \in {P1, P2, P3, P4} :
         (MouseUp(p[1], p[2]) /\ Len(drawingStack') = Len(drawingStack) + 1
          /\ heap'[drawingStack'[Len(drawingStack')]].type
               \in {"rect", "circle", "check", "cross", "blur", "arrow"})
         => LET args == CreateArgs(p[1], p[2])
            IN NormalisedFrom(heap'[drawingStack'[Len(drawingStack')]],
                              args[1], args[2], args[3], args[4])]_vars

\* what createObject returns for an arrow: the first corner, the signed deltas
\* when both reach 10px, and else 10px on each axis with the sign of its delta
ArrowFrom(obj, x1, y1, x2, y2) ==
    /\ obj.x = x1 /\ obj.y = y1
    /\ IF Abs(x2 - x1) >= Px(10) /\ Abs(y2 - y1) >= Px(10)
       THEN obj.width = x2 - x1 /\ obj.height = y2 - y1
       ELSE /\ obj.width = (IF x2 - x1 >= 0 THEN Px(10) ELSE 0 - Px(10))
            /\ obj.height = (IF y2 - y1 >= 0 THEN Px(10) ELSE 0 - Px(10))

\* C10 (amended): every rectangle, circle, check, cross and blur region the mouseup
\* listener appends is the normalised object of the corner pair handed to
\* createObject; an arrow keeps the first corner as origin and stores the signed
\* deltas when both have magnitude 10px or more, and 10px per axis with the sign
\* of each delta otherwise
C10_CreateObjectStores ==
    [][\A p \in {P1, P2, P3, P4} :
         (MouseUp(p[1], p[2]) /\ Len(drawingStack') = Len(drawingStack) + 1
          /\ heap'[drawingStack'[Len(drawingStack')]].type
               \in {"rect", "circle", "check", "cross", "blur", "arrow"})
         => LET args == CreateArgs(p[1], p[2])
            IN IF heap'[drawingStack'[Len(drawingStack')]].type = "arrow"
               THEN ArrowFrom(heap'[drawingStack'[Len(drawingStack')]],
                              args[1], args[2], args[3], args[4])
               ELSE NormalisedFrom(heap'[drawingStack'[Len(drawingStack')]],
                                   args[1], args[2], args[3], args[4])]_vars

\* a rectangle drawn from the lower right corner P2 up to P1 is in the Document,
\* anchored at P1
C10_Witness ==
    /\ Len(drawingStack) = 1
    /\ heap[drawingStack[1]].type = "rect"
    /\ startX = P2[1] /\ startY = P2[2]
    /\ heap[drawingStack[1]].x = P1[1] /\ heap[drawingStack[1]].y = P1[2]
    /\ heap[drawingStack[1]].width = Px(60) /\ heap[drawingStack[1]].height = Px(60)

\* the deltas and first corners createObject is probed with, in quarter pixels
ArrowDeltas ==
    {0 - Px(60), 0 - Px(10), 0 - Px(9), 0 - Px(3), 0, Px(3), Px(9), Px(10), Px(60)}

ArrowCorners == {0, Px(40)}

\* the extent of an arrow whose deltas are dx and dy: 10px per axis with the sign
\* of the delta when one of them is under 10px, the deltas themselves otherwise
SnappedExtent(dx, dy) ==
    IF Abs(dx) < Px(10) \/ Abs(dy) < Px(10)
    THEN <<IF dx >= 0 THEN Px(10) ELSE 0 - Px(10), IF dy >= 0 THEN Px(10) ELSE 0 - Px(10)>>
    ELSE <<dx, dy>>

\* C11: with the arrow tool, createObject on a corner pair whose x-delta or y-delta
\* is under 10px in magnitude returns width and height of magnitude 10px, each with
\* the sign of its delta (zero counts as positive), an arrow from (0,0) to (3,3)
\* gets width 10 and height 10, and deltas of 10px or more on both axes are stored
\* unchanged; every arrow the mouseup listener appends has the extent so computed
C11_ArrowSnap ==
    /\ [](activeTool = "arrow" =>
            /\ createObject(0, 0, Px(3), Px(3)).width = Px(10)
            /\ createObject(0, 0, Px(3), Px(3)).height = Px(10)
            /\ \A x1, y1 \in ArrowCorners : \A dx, dy \in ArrowDeltas :
                 /\ createObject(x1, y1, x1 + dx, y1 + dy).width = SnappedExtent(dx, dy)[1]
                 /\ createObject(x1, y1, x1 + dx, y1 + dy).height = SnappedExtent(dx, dy)[2])
    /\ [][\A p \in {P1, P2, P3, P4} :
            (MouseUp(p[1], p[2]) /\ activeTool = "arrow"
             /\ Len(drawingStack') = Len(drawingStack) + 1)
            => LET args == CreateArgs(p[1], p[2])
               IN /\ heap'[drawingStack'[Len(drawingStack')]].width
                       = SnappedExtent(args[3] - args[1], args[4] - args[2])[1]
                  /\ heap'[drawingStack'[Len(drawingStack')]].height
                       = SnappedExtent(args[3] - args[1], args[4] - args[2])[2]]_vars

\* a horizontal drag to the left (from P3 to P1) left an arrow snapped to (-10px, 10px)
C11_Witness ==
    /\ activeTool = "arrow"
    /\ Len(drawingStack) = 1
    /\ heap[drawingStack[1]].type = "arrow"
    /\ startX = P3[1] /\ startY = P3[2]
    /\ heap[drawingStack[1]].x = P3[1] /\ heap[drawingStack[1]].y = P3[2]
    /\ heap[drawingStack[1]].width = 0 - Px(10)
    /\ heap[drawingStack[1]].height = Px(10)

\* the kind of object the active tool creates
CreationKind == IF activeTool = "shape" THEN currentShape ELSE activeTool

\* C12: a pointer-up within 5px of the pointer-down, with check or cross as the
\* kind being created, appends one object of that kind, 20px wide and 20px high,
\* with its origin 10px up and left of the click, whatever the line width is
C12_CheckCrossClick ==
    [][\A p \in {P1, P2, P3, P4} :
         (MouseUp(p[1], p[2]) /\ isDrawing /\ currentImage # NoImage
          /\ wasClick(p[1], p[2]) /\ CreationKind \in {"check", "cross"})
         => /\ Len(drawingStack') = Len(drawingStack) + 1
            /\ heap'[drawingStack'[Len(drawingStack')]].type = CreationKind
            /\ heap'[drawingStack'[Len(drawingStack')]].width = Px(20)
            /\ heap'[drawingStack'[Len(drawingStack')]].height = Px(20)
            /\ heap'[drawingStack'[Len(drawingStack')]].x = startX - Px(10)
            /\ heap'[drawingStack'[Len(drawingStack')]].y = startY - Px(10)]_vars

\* the width and height a drag by (dx, dy) has to give the kind being created
DragSize(dx, dy) ==
    IF CreationKind \in {"rect", "circle"} /\ isShiftPressed
    THEN <<Max2(Abs(dx), Abs(dy)), Max2(Abs(dx), Abs(dy))>>
    ELSE IF CreationKind \in {"check", "cross"} /\ ~isShiftPressed
    THEN <<Min2(Abs(dx), Abs(dy)), Min2(Abs(dx), Abs(dy))>>
    ELSE <<Abs(dx), Abs(dy)>>

\* C13: a pointer-up 5px or more away from the pointer-down appends, for a rectangle
\* or circle, an object as wide and high as the larger of |dx| and |dy| with shift
\* held and |dx| by |dy| without; for a check or cross, an object as wide and high
\* as the smaller of |dx| and |dy| without shift and |dx| by |dy| with shift; on
\* each axis the object starts at the pointer-down point and extends the way of
\* the drag
C13_DragExtent ==
    [][\A p \in {P1, P3, P5} :
         (MouseUp(p[1], p[2]) /\ isDrawing /\ currentImage # NoImage
          /\ ~wasClick(p[1], p[2]) /\ CreationKind \in {"rect", "circle", "check", "cross"})
         => /\ Len(drawingStack') = Len(drawingStack) + 1
            /\ heap'[drawingStack'[Len(drawingStack')]].type = CreationKind
            /\ heap'[drawingStack'[Len(drawingStack')]].width
                 = DragSize(p[1] - startX, p[2] - startY)[1]
            /\ heap'[drawingStack'[Len(drawingStack')]].height
                 = DragSize(p[1] - startX, p[2] - startY)[2]
            /\ heap'[drawingStack'[Len(drawingStack')]].x
                 = (IF p[1] >= startX THEN startX
                    ELSE startX - DragSize(p[1] - startX, p[2] - startY)[1])
            /\ heap'[drawingStack'[Len(drawingStack')]].y
                 = (IF p[2] >= startY THEN startY
                    ELSE startY - DragSize(p[1] - startX, p[2] - startY)[2])]_vars

\* with shift held, a drag from P3 left and down to P5 (20px by 60px) left a
\* 60px square circle reaching left of and below P3
C13_Witness ==
    /\ isShiftPressed
    /\ Len(drawingStack) = 1
    /\ heap[drawingStack[1]].type = "circle"
    /\ startX = P3[1] /\ startY = P3[2]
    /\ heap[drawingStack[1]].x = P3[1] - Px(60) /\ heap[drawingStack[1]].y = P3[2]
    /\ heap[drawingStack[1]].width = Px(60) /\ heap[drawingStack[1]].height = Px(60)

(***************************************************************************)
(* Eraser                                                                  *)
(***************************************************************************)
\* doc with one of its objects taken out, or doc itself
AtMostOneRemoved(after, doc) ==
    \/ after = doc
    \/ \E i \in 1..Len(doc) : after = RemoveAt(doc, i)

\* C14: with the eraser active, a pointer-down, pointer-move or pointer-up leaves
\* the Document as it was or with one object removed, never with an object added
\* or changed, and createObject returns no object
C14_EraserNeverAdds ==
    /\ [](activeTool = "eraser" =>
            \A x1, y1, x2, y2 \in {P1[1], P2[1]} : createObject(x1, y1, x2, y2) = NoObject)
    /\ [][\A p \in {P1, P2} :
            (activeTool = "eraser"
             /\ (MouseDown(p[1], p[2]) \/ MouseMove(p[1], p[2]) \/ MouseUp(p[1], p[2])))
            => AtMostOneRemoved(DocValue', DocValue)]_vars

\* an eraser drag is under way that has removed the marker under the pointer-down
\* and left the other marker
C14_Witness ==
    /\ activeTool = "eraser"
    /\ isDrawing /\ currentEraserStroke
    /\ Len(drawingStack) = 1
    /\ Len(undoStack) > 0
    /\ Len(undoStack[Len(undoStack)]) = 2

(***************************************************************************)
(* Hit testing and bounds                                                  *)
(***************************************************************************)
\* the points getObjectAt is probed at
Probes ==
    {P1, P2, P3, <<Px(70), Px(70)>>, <<Px(70), Px(60)>>, <<Px(46), Px(40)>>,
     <<Px(48), Px(40)>>, <<Px(20), Px(20)>>}

\* the hit region of an object: within lineWidth/2 + 2px of the segment of an
\* arrow or of a segment between consecutive points of a brush stroke, and
\* within 3px of the bounds for every other kind
HitRegion(obj, x, y) ==
    IF obj.type = "arrow"
    THEN distanceToLineSegmentLe(x, y, obj.x, obj.y, JsAdd(obj.x, obj.width),
                                 JsAdd(obj.y, obj.height), JsAdd(JsHalf(obj.lineWidth), Px(2)))
    ELSE IF obj.type = "brush"
    THEN \E j \in 1..(Len(obj.points) - 1) :
            distanceToLineSegmentLe(x, y, obj.points[j][1], obj.points[j][2],
                                    obj.points[j + 1][1], obj.points[j + 1][2],
                                    JsAdd(JsHalf(obj.lineWidth), Px(2)))
    ELSE InBox(getObjectBounds(obj), x, y)

\* the positions in the Document of the objects whose hit region contains (x, y)
HitPositions(x, y) == {i \in 1..Len(drawingStack) : HitRegion(heap[drawingStack[i]], x, y)}

\* C15: getObjectAt(x, y) is the object highest in the Document among those whose
\* hit region contains (x, y), and none when no hit region contains it
C15_HitTestTopmost ==
    \A p \in Probes :
       getObjectAt(p[1], p[2]) = (IF HitPositions(p[1], p[2]) = {} THEN NoRef
                                  ELSE drawingStack[SetMax(HitPositions(p[1], p[2]))])

\* the rotations getObjectBounds is probed with, in quarter turns
Rotations == {0 - 1, 0, 1, 2, 3}

\* C16: for every object with rotation 0, getObjectBounds is the box of its kind
\* before rotation, and for a circle or a number marker it is that box whatever
\* the rotation is
C16_BoundsUnrotated ==
    \A i \in DOMAIN heap :
       /\ getObjectBounds([heap[i] EXCEPT !.rotation = 0]) = BaseBounds(heap[i])
       /\ heap[i].rotation = 0 => getObjectBounds(heap[i]) = BaseBounds(heap[i])
       /\ heap[i].type \in {"circle", "numbers"}
            => \A k \in Rotations :
                 getObjectBounds([heap[i] EXCEPT !.rotation = k]) = BaseBounds(heap[i])

\* a circle 40px wide and 60px high is in the Document
C16_Witness ==
    /\ Len(drawingStack) = 1
    /\ heap[drawingStack[1]].type = "circle"
    /\ heap[drawingStack[1]].rotation = 0
    /\ getObjectBounds(heap[drawingStack[1]]) = Box(P1[1], P1[2], Px(40), Px(60))


(***************************************************************************)
(* Resizing and rotating                                                   *)
(***************************************************************************)
CornerHandles == {"nw-resize", "ne-resize", "sw-resize", "se-resize"}

\* the selected object as the snapshot taken at pointer-down has it
DragBaseline == undoStack[Len(undoStack)][PositionIn(drawingStack, selectedObject)]

\* a corner drag of the selected object is in progress
ResizeInProgress == TransformInProgress /\ resizeHandle \in CornerHandles

\* the move to (x, y) passes the 5px minimum of applyResize
MoveAccepted(x, y) ==
    LET nb == ResizedBounds(resizeHandle, x - initialMousePos[1], y - initialMousePos[2])
    IN ~(JsLt(JsAbs(nb.width), Px(5)) \/ JsLt(JsAbs(nb.height), Px(5)))

\* <<x, y, width, height>> of box b after its corner is dragged by (dx, dy)
CornerDragged(b, handleType, dx, dy) ==
    IF handleType = "se-resize" THEN <<b.x, b.y, b.width + dx, b.height + dy>>
    ELSE IF handleType = "nw-resize" THEN <<b.x + dx, b.y + dy, b.width - dx, b.height - dy>>
    ELSE IF handleType = "ne-resize" THEN <<b.x, b.y + dy, b.width + dx, b.height - dy>>
    ELSE <<b.x + dx, b.y, b.width - dx, b.height + dy>>

ResizeProbes == {P1, P2, P3, P4, P5, <<Px(20), Px(100)>>}

\* C17: while a corner of an unrotated rectangle is dragged, every accepted move
\* leaves the rectangle at the box it had at pointer-down with that corner moved
\* by the pointer's displacement from the pointer-down point: se (x, y, w+dx, h+dy),
\* nw (x+dx, y+dy, w-dx, h-dy), ne (x, y+dy, w+dx, h-dy), sw (x+dx, y, w-dx, h+dy)
C17_CornerResize ==
    [][\A p \in ResizeProbes :
         (/\ MouseMove(p[1], p[2])
          /\ ResizeInProgress
          /\ heap[selectedObject].type = "rect"
          /\ DragBaseline.rotation = 0
          /\ MoveAccepted(p[1], p[2]))
         => <<heap'[selectedObject'].x, heap'[selectedObject'].y,
              heap'[selectedObject'].width, heap'[selectedObject'].height>>
            = CornerDragged(DragBaseline, resizeHandle,
                            p[1] - initialMousePos[1], p[2] - initialMousePos[2])]_vars

\* C18: a move of a corner drag that would make the box narrower or lower than
\* 5px changes no field of the object, and leaves the drag as it was (handle,
\* pointer-down box and point, selection), so that a later move is applied
C18_SmallMoveRejected ==
    [][\A p \in ResizeProbes :
         (MouseMove(p[1], p[2]) /\ ResizeInProgress /\ ~MoveAccepted(p[1], p[2]))
         => /\ heap'[selectedObject'] = heap[selectedObject]
            /\ selectedObject' = selectedObject
            /\ isDrawing'
            /\ resizeHandle' = resizeHandle
            /\ initialBounds' = initialBounds
            /\ initialMousePos' = initialMousePos]_vars

\* a corner drag has already moved the rectangle away from its pointer-down box,
\* and the pointer is about to move where the box would be under 5px
C18_Witness ==
    /\ ResizeInProgress
    /\ Placement(heap[selectedObject]) # Placement(DragBaseline)
    /\ \E p \in ResizeProbes : ~MoveAccepted(p[1], p[2])

\* orig * |newHeight| for the move to (x, y): the numerator of the new size
ScaledSize(orig, x, y) ==
    orig * Abs(ResizedBounds(resizeHandle, x - initialMousePos[1], y - initialMousePos[2]).height)

\* C19: an accepted move of a corner drag of a label sets its size to
\* originalSize * |new height| / |pointer-down height| (to the quarter pixel);
\* when that is under 4 the move changes neither the size nor the position
C19_LabelResize ==
    [][\A p \in LabelPoints :
         (/\ MouseMove(p[1], p[2])
          /\ ResizeInProgress
          /\ heap[selectedObject].type = "text"
          /\ MoveAccepted(p[1], p[2]))
         => IF ScaledSize(heap[selectedObject].originalSize, p[1], p[2])
                 < Px(4) * Abs(initialBounds.height)
            THEN /\ heap'[selectedObject'].size = heap[selectedObject].size
                 /\ heap'[selectedObject'].x = heap[selectedObject].x
                 /\ heap'[selectedObject'].y = heap[selectedObject].y
            ELSE /\ heap'[selectedObject'].size * Abs(initialBounds.height)
                      <= ScaledSize(heap[selectedObject].originalSize, p[1], p[2])
                 /\ ScaledSize(heap[selectedObject].originalSize, p[1], p[2])
                      < (heap'[selectedObject'].size + 1) * Abs(initialBounds.height)]_vars

\* the 50px label, dragged by its lower right handle to half its height, is 25px
C19_Witness ==
    /\ ResizeInProgress
    /\ heap[selectedObject].type = "text"
    /\ heap[selectedObject].originalSize = Px(50)
    /\ initialBounds.height = Px(50)
    /\ heap[selectedObject].size = Px(25)

RotatePoints ==
    {<<Px(70), Px(70)>>, <<Px(70), Px(20)>>, <<Px(120), Px(70)>>,
     <<Px(70), Px(120)>>, <<Px(20), Px(70)>>}

\* the angle of (x, y) seen from the centre of the pointer-down box, in quarter turns
AngleAt(x, y) ==
    atan2(2 * y - (2 * initialBounds.y + initialBounds.height),
          2 * x - (2 * initialBounds.x + initialBounds.width))

\* C20: every move of a rotate drag leaves the object at the rotation it had at
\* pointer-down plus the angle between the pointer-down point and the pointer,
\* whatever the earlier moves of the drag were; the rotation a drag starts from
\* is the one the drag before it left, so the angles of two drags add up
C20_RotationAdds ==
    [][\A p \in RotatePoints :
         (MouseMove(p[1], p[2]) /\ TransformInProgress /\ resizeHandle = "rotate")
         => heap'[selectedObject'].rotation
            = JsOr(DragBaseline.rotation, 0)
              + AngleAt(p[1], p[2]) - AngleAt(initialMousePos[1], initialMousePos[2])]_vars

\* a second rotate drag is under way: the first left the rectangle turned, and
\* the second has turned it further
C20_Witness ==
    /\ TransformInProgress
    /\ resizeHandle = "rotate"
    /\ Truthy(DragBaseline.rotation)
    /\ heap[selectedObject].rotation # DragBaseline.rotation
    /\ heap[selectedObject].rotation # 0

\* obj carries no rotation-tracking field and its rescale baseline is its size
Rebaselined(obj) ==
    /\ obj.initialRotation = JsUndefined
    /\ IF obj.type = "text" THEN obj.originalSize = obj.size
       ELSE obj.originalWidth = JsAbs(obj.width) /\ obj.originalHeight = JsAbs(obj.height)

\* C21: the pointer-up that ends a resize or rotate drag clears the handle, the
\* pointer-down box and the pointer-down point, and leaves the dragged object (the
\* one carrying the rotation-tracking field) without that field and with its
\* rescale baseline equal to its size; and a pointer-down with the select tool
\* that selects an object starts a resize or rotate only with the handle under
\* the pointer
C21_DragEndsIdle ==
    /\ [][\A p \in ResizeProbes :
            (MouseUp(p[1], p[2]) /\ isDrawing /\ resizeHandle # "none" /\ initialBounds # NoBounds)
            => /\ ~isDrawing'
               /\ resizeHandle' = "none"
               /\ initialBounds' = NoBounds
               /\ initialMousePos' = <<>>
               /\ \A i \in 1..Len(drawingStack) :
                     heap[drawingStack[i]].initialRotation # JsUndefined
                     => /\ Len(drawingStack') = Len(drawingStack)
                        /\ Rebaselined(heap'[drawingStack'[i]])]_vars
    /\ [][\A p \in ResizeProbes :
            (/\ MouseDown(p[1], p[2])
             /\ activeTool = "select"
             /\ selectedObject' # NoRef
             /\ resizeHandle' # "none")
            => resizeHandle' = getResizeHandle(p[1], p[2], heap'[selectedObject'])]_vars

(***************************************************************************)
(* Text editing                                                            *)
(***************************************************************************)
\* C22: every step from Closed into Editing leaves the target not all-selected,
\* with the cursor at 0 for a label the step created and at the end of the text
\* for a label that existed
C22_EditingStartsClean ==
    [][(~isEditingText /\ isEditingText')
       => /\ currentTextObj' # NoRef
          /\ heap'[currentTextObj'].isAllSelected # "true"
          /\ textCursor' = (IF Len(drawingStack') > Len(drawingStack) THEN 0
                            ELSE Len(heap'[currentTextObj'].text))]_vars

\* the texts of the objects of a Document value, in order
Texts(doc) == [i \in DOMAIN doc |-> doc[i].text]

\* a click at (x, y) outside the bounds of the label being edited
ClickOutside(x, y) ==
    /\ MouseUp(x, y)
    /\ isDrawing /\ isEditingText /\ textListeners > 0
    /\ LET b == getObjectBounds(heap[currentTextObj])
       IN ~(x >= b.x /\ x <= b.x + b.width /\ y >= b.y /\ y <= b.y + b.height)

\* Enter, Escape or a click outside the target while Editing
CommitEvent ==
    \/ handleGlobalKeydown("Enter")
    \/ handleGlobalKeydown("Escape")
    \/ \E p \in {<<Px(50), Px(60)>>, P5} : ClickOutside(p[1], p[2])

\* C23: Enter, Escape and a click outside the target end the editing session
\* with nothing selected; the target leaves the Document when its text is empty
\* and otherwise stays with the text as edited
C23_CommitCloses ==
    [][(CommitEvent /\ currentTextObj \in Range(drawingStack))
       => /\ ~isEditingText'
          /\ currentTextObj' = NoRef
          /\ selectedObject' = NoRef
          /\ Texts(DocValue') = (IF heap[currentTextObj].text = <<>>
                                 THEN Texts(DocWithout(currentTextObj))
                                 ELSE Texts(DocValue))]_vars

\* C23, as the code has it: the target leaves the Document when its text is
\* empty or consists of spaces only, and otherwise stays with the text as edited
C23_CommitClosesBlank ==
    [][(CommitEvent /\ currentTextObj \in Range(drawingStack))
       => /\ ~isEditingText'
          /\ currentTextObj' = NoRef
          /\ selectedObject' = NoRef
          /\ Texts(DocValue') = (IF \A i \in 1..Len(heap[currentTextObj].text) :
                                       heap[currentTextObj].text[i] = " "
                                 THEN Texts(DocWithout(currentTextObj))
                                 ELSE Texts(DocValue))]_vars

\* a second label was created, typed into and committed: the session is closed,
\* nothing is selected, both labels are in the Document
C23_Witness ==
    /\ ~isEditingText
    /\ currentTextObj = NoRef
    /\ selectedObject = NoRef
    /\ Len(drawingStack) = 2
    /\ Texts(DocValue) = <<<<"a">>, <<"a">>>>

\* C24: while no label is being edited no caret interval is running, and a tick
\* of a caret interval changes neither an object, nor the cursor, nor the Document
C24_NoTimerWhenClosed ==
    /\ [](~isEditingText => liveIntervals = 0)
    /\ [][BlinkTick => UNCHANGED <<heap, drawingStack, textCursor>>]_vars

(***************************************************************************)
(* Timers                                                                  *)
(***************************************************************************)
\* C25: no timer callback (the caret interval, the listeners' timeout, the
\* debounce timeout of the colour and width inputs) changes the Document, the
\* undo stack or the redo stack
C25_TimersLeaveHistory ==
    [][(BlinkTick \/ AttachListeners \/ InputChangeTimer)
       => UNCHANGED <<drawingStack, heap, undoStack, redoStack>>]_vars

(***************************************************************************)
(* Crop                                                                    *)
(***************************************************************************)
\* C26: once applyCrop has pushed its snapshot, the next step is the one that
\* removes and moves the objects: no other event runs while a crop is pending
C26_CropInOneStep ==
    [][cropPending # <<>> => CropImgOnload]_vars

(***************************************************************************)
(* Rendering                                                               *)
(***************************************************************************)
\* redrawAnnotations draws the hover box
HoverBoxDrawn ==
    currentImage # NoImage /\ hoveredObject # NoRef /\ hoveredObject # selectedObject

\* C27: while an object is selected no hover box is drawn
C27_NoHoverBoxWhenSelected == selectedObject # NoRef => ~HoverBoxDrawn

(***************************************************************************)
(* Text tool                                                               *)
(***************************************************************************)
TextToolProbes == {<<Px(50), Px(60)>>, <<Px(120), Px(70)>>, P5}

EntersEditing == ~isEditingText /\ isEditingText'

\* C28: with the text tool and no editing session, a pointer-down that hits
\* an object creates no label and opens no session; a session opens only
\* by a pointer-down on empty canvas, which appends a new empty label, or by
\* a double-click on a label, which edits that label
C28_TextToolPointerDown ==
    /\ [][\A p \in TextToolProbes :
             (activeTool = "text" /\ ~isEditingText /\ MouseDown(p[1], p[2])
                /\ getObjectAt(p[1], p[2]) # NoRef)
             => (~isEditingText' /\ Len(drawingStack') = Len(drawingStack))]_vars
    /\ [][(activeTool = "text" /\ EntersEditing) =>
             \E p \in TextToolProbes :
                 \/ /\ MouseDown(p[1], p[2])
                    /\ getObjectAt(p[1], p[2]) = NoRef
                    /\ Len(drawingStack') = Len(drawingStack) + 1
                    /\ heap'[currentTextObj'].text = <<>>
                 \/ /\ DblClick(p[1], p[2])
                    /\ getObjectAt(p[1], p[2]) # NoRef
                    /\ heap'[currentTextObj'] = heap[getObjectAt(p[1], p[2])]]_vars

(***************************************************************************)
(* Editing keys                                                            *)
(***************************************************************************)
\* the first n characters of t, and the characters of t from position n on
TextBefore(t, n) == SubSeq(t, 1, IF n < Len(t) THEN n ELSE Len(t))

TextFrom(t, n) == SubSeq(t, (IF n < Len(t) THEN n ELSE Len(t)) + 1, Len(t))

\* what a key has to leave of text t with cursor c
KeyResult(key, t, c, all) ==
    LET obj == heap'[currentTextObj']
    IN IF all
       THEN IF key = "a"
            THEN obj.text = <<key>> /\ textCursor' = 1 /\ obj.isAllSelected = "false"
            ELSE obj.text = <<>> /\ textCursor' = 0
       ELSE IF key = "a"
       THEN obj.text = TextBefore(t, c) \o <<key>> \o TextFrom(t, c) /\ textCursor' = c + 1
       ELSE IF key = "Backspace"
       THEN IF c = 0
            THEN obj.text = t /\ textCursor' = c
            ELSE /\ obj.text = TextBefore(t, c - 1) \o TextFrom(t, c)
                 /\ Len(obj.text) = Len(t) - 1
                 /\ textCursor' = c - 1
       ELSE IF c = Len(t)
            THEN obj.text = t /\ textCursor' = c
            ELSE /\ obj.text = TextBefore(t, c) \o TextFrom(t, c + 1)
                 /\ Len(obj.text) = Len(t) - 1
                 /\ textCursor' = c

\* C29: a printable key inserts itself at the cursor and moves the cursor one to
\* the right, Backspace removes exactly the character before the cursor, Delete
\* exactly the one after it; after select-all the key replaces the whole text
\* and Backspace or Delete removes all of it
C29_KeysEditText ==
    [][\A key \in {"a", "Backspace", "Delete"} :
          handleGlobalKeydown(key) =>
              KeyResult(key, heap[currentTextObj].text, textCursor,
                        heap[currentTextObj].isAllSelected = "true")]_vars

(***************************************************************************)
(* Text cursor                                                             *)
(***************************************************************************)
\* C30: while a label is edited the cursor index lies between 0 and the length
\* of the label's text
C30_CursorInText ==
    (isEditingText /\ currentTextObj # NoRef) =>
        (0 <= textCursor /\ textCursor <= Len(heap[currentTextObj].text))

(***************************************************************************)
(* Edit target                                                             *)
(***************************************************************************)
\* C31: while a label is edited, the edited object is one of the objects of
\* the Document
C31_EditTargetInDocument ==
    (isEditingText /\ currentTextObj # NoRef) =>
        \E i \in 1..Len(drawingStack) : drawingStack[i] = currentTextObj

(***************************************************************************)
(* Creation gestures                                                       *)
(***************************************************************************)
CreationTools == {"rect", "circle", "arrow", "blur", "shape", "numbers", "brush"}

\* the objects of the Document before the step are its first objects after it
DocumentKept ==
    /\ Len(drawingStack') >= Len(drawingStack)
    /\ \A i \in 1..Len(drawingStack) : heap'[drawingStack'[i]] = heap[drawingStack[i]]

\* C32: the pointer-up that ends a creation gesture leaves exactly one new
\* object at the end of the Document and every other object as it was: for the
\* brush that object is the stroke appended at pointer-down, with its points;
\* for the other tools it is appended by the pointer-up
C32_GestureAppendsOne ==
    [][\A p \in {P1, P2} :
          (MouseUp(p[1], p[2]) /\ currentImage # NoImage /\ isDrawing
             /\ activeTool \in CreationTools) =>
              /\ DocumentKept
              /\ Len(drawingStack') =
                    Len(drawingStack) + (IF activeTool = "brush" THEN 0 ELSE 1)
              /\ activeTool = "brush" =>
                    /\ drawingStack' # <<>>
                    /\ heap'[drawingStack'[Len(drawingStack')]].type = "brush"
                    /\ heap'[drawingStack'[Len(drawingStack')]].points # <<>>]_vars

(***************************************************************************)
(* Move drag                                                               *)
(***************************************************************************)
\* a move drag is in progress on the selected object
MoveInProgress ==
    /\ TransformInProgress
    /\ isDragging
    /\ resizeHandle = "none"
    /\ activeTool \in {"select", "text"}

\* C33: every pointer-move of a move drag leaves the selected object at its
\* position in the pointer-down snapshot plus the pointer's displacement since
\* pointer-down; back at the pointer-down position it is where it was
C33_MoveFollowsPointer ==
    [][\A p \in {P1, P2} :
          (MouseMove(p[1], p[2]) /\ MoveInProgress) =>
              /\ DocValue'[PositionIn(drawingStack, selectedObject)].x =
                    JsAdd(undoStack[Len(undoStack)][PositionIn(drawingStack, selectedObject)].x,
                          p[1] - startX)
              /\ DocValue'[PositionIn(drawingStack, selectedObject)].y =
                    JsAdd(undoStack[Len(undoStack)][PositionIn(drawingStack, selectedObject)].y,
                          p[2] - startY)]_vars

(***************************************************************************)
(* Resize without pointer movement                                         *)
(***************************************************************************)
\* C34: a pointer-move of a corner drag at the position of the pointer-down
\* leaves the position, width, height and size of the dragged object unchanged
C34_ZeroDeltaResize ==
    [][\A p \in ArrowPoints :
          (MouseMove(p[1], p[2]) /\ TransformInProgress /\ resizeHandle \in CornerHandles
             /\ activeTool = "select" /\ initialMousePos = p) =>
              /\ heap'[selectedObject'].x = heap[selectedObject].x
              /\ heap'[selectedObject'].y = heap[selectedObject].y
              /\ heap'[selectedObject'].width = heap[selectedObject].width
              /\ heap'[selectedObject'].height = heap[selectedObject].height
              /\ heap'[selectedObject'].size = heap[selectedObject].size]_vars

(***************************************************************************)
(* Extent of the box kinds                                                 *)
(***************************************************************************)
BoxKinds == {"rect", "circle", "check", "cross", "blur"}

\* C35: every rectangle, circle, check, cross and blur region of the Document
\* has a width and a height that are not negative
C35_ExtentNotNegative ==
    \A i \in 1..Len(drawingStack) :
        heap[drawingStack[i]].type \in BoxKinds =>
            /\ JsGe(heap[drawingStack[i]].width, 0)
            /\ JsGe(heap[drawingStack[i]].height, 0)

(***************************************************************************)
(* Snapshots of unchanged Documents                                        *)
(***************************************************************************)
\* C36: a pointer-down of the select tool or of the eraser that leaves the
\* Document as it was (an object is selected, a handle is pressed, the eraser
\* hits nothing) leaves the undo stack and the redo stack as they were
C36_UnchangedKeepsHistory ==
    [][\A p \in {P1, P2} :
          (MouseDown(p[1], p[2]) /\ activeTool \in {"select", "eraser"}
             /\ DocValue' = DocValue) =>
              UNCHANGED <<undoStack, redoStack>>]_vars

(***************************************************************************)
(* Hit test of brush strokes                                               *)
(***************************************************************************)
\* C37: getObjectAt at a point of a brush stroke returns the stroke when the
\* objects above it are left out
C37_StrokeHitAtItsPoints ==
    \A i \in 1..Len(drawingStack) :
        heap[drawingStack[i]].type = "brush" =>
            \A j \in 1..Len(heap[drawingStack[i]].points) :
                ObjectAtIn(heap, SubSeq(drawingStack, 1, i),
                           heap[drawingStack[i]].points[j][1],
                           heap[drawingStack[i]].points[j][2]) = drawingStack[i]

(***************************************************************************)
(* Eraser gesture                                                          *)
(***************************************************************************)
\* the Document loses the topmost object under (x, y), or stays when there is none
ErasedAt(x, y) ==
    IF getObjectAt(x, y) = NoRef
    THEN DocValue' = DocValue
    ELSE DocValue' = RemoveAt(DocValue, PositionIn(drawingStack, getObjectAt(x, y)))

\* C38: with the eraser, the pointer-down pushes one snapshot of the Document
\* as it is before anything is removed; the pointer-down and every pointer-move
\* of the gesture remove at most the topmost object under the pointer and the
\* pointer-up removes nothing, neither of the two pushing a snapshot; an undo
\* makes the Document the snapshot on top of the undo stack, every object the
\* gesture removed back in its place
C38_EraserGesture ==
    /\ [][\A p \in {P1, P2} :
            (MouseDown(p[1], p[2]) /\ activeTool = "eraser") =>
                /\ undoStack' = Append(undoStack, JsonStringify(DocValue))
                /\ ErasedAt(p[1], p[2])]_vars
    /\ [][\A p \in {P1, P2} :
            (MouseMove(p[1], p[2]) /\ activeTool = "eraser") =>
                /\ undoStack' = undoStack
                /\ DocValue' = DocValue \/ ErasedAt(p[1], p[2])]_vars
    /\ [][\A p \in {P1, P2} :
            (MouseUp(p[1], p[2]) /\ activeTool = "eraser") =>
                UNCHANGED <<undoStack, drawingStack>> /\ DocValue' = DocValue]_vars
    /\ [][(KeyUndo /\ undoStack # <<>>) =>
             DocValue' = JsonParse(undoStack[Len(undoStack)])]_vars

\* one gesture has removed both markers and one undo has brought them back:
\* the emptied Document is the only entry of the redo stack
C38_Witness ==
    /\ activeTool = "eraser"
    /\ ~isDrawing
    /\ Len(drawingStack) = 2
    /\ heap[drawingStack[1]].number = 1 /\ heap[drawingStack[2]].number = 2
    /\ redoStack = <<<<>>>>
    /\ Len(undoStack) = 2
====
